---- MODULE Spec2Model ----
(***************************************************************************)
(* A model of TTiP/parsers/parse_args.py: the Registry of custom terminals *)
(* (Node._custom_terminals), the expression parser (Expression._init and   *)
(* Expression.set_right), the evaluators and process_args.                 *)
(*                                                                         *)
(* Python strings are sequences of one-character strings.  Numbers are     *)
(* exact rationals n/d with a flag that tells a float from an int; the     *)
(* rounding of binary floating point is not modelled.  An exception is a   *)
(* record of kind "X" that every caller passes on unchanged.               *)
(***************************************************************************)
EXTENDS Integers, Sequences, FiniteSets, TLC

VARIABLES
    custom_terminals,    \* Node._custom_terminals: sequence of <<name, value>> in insertion order
    reserved_terminals,  \* Node._reserved_terminals: empty until the first Terminal is built
    pc,                  \* position of the running scenario
    src,                 \* the input the scenario was started with
    expr,                \* the tree (or exception) returned by Expression(...)
    result,              \* the value (or exception) returned by the last call
    conf,                \* process_args: the section, a sequence of <<key, value>>
    outputs,             \* process_args: outputs
    util_functions,      \* process_args: util_functions, sequence of <<name, value>>
    to_evaluate,         \* process_args: to_evaluate, sequence of <<keys, tree>>
    rounds,              \* process_args: rounds of the resolution loop performed so far
    round_bound,         \* process_args: len(to_evaluate) + 1 taken when the loop starts
    log,                 \* process_args: the calls made on the Registry and the builder
    ncalls               \* the number of calls of process_args made so far

vars == <<custom_terminals, reserved_terminals, pc, src, expr, result, conf,
          outputs, util_functions, to_evaluate, rounds, round_bound, log, ncalls>>

-----------------------------------------------------------------------------
(* Python str methods                                                      *)

Whitespace == {" "}

RECURSIVE lstrip(_)
lstrip(s) ==
    IF s # <<>> /\ Head(s) \in Whitespace THEN lstrip(Tail(s)) ELSE s

RECURSIVE rstrip(_)
rstrip(s) ==
    IF s # <<>> /\ s[Len(s)] \in Whitespace
    THEN rstrip(SubSeq(s, 1, Len(s) - 1)) ELSE s

strip(s) == rstrip(lstrip(s))

RECURSIVE lstrip_char(_, _)
lstrip_char(s, c) ==
    IF s # <<>> /\ Head(s) = c THEN lstrip_char(Tail(s), c) ELSE s

RECURSIVE rstrip_char(_, _)
rstrip_char(s, c) ==
    IF s # <<>> /\ s[Len(s)] = c
    THEN rstrip_char(SubSeq(s, 1, Len(s) - 1), c) ELSE s

\* str.strip(c) for a one-character argument: every leading and trailing c
strip_char(s, c) == rstrip_char(lstrip_char(s, c), c)

startswith(s, p) == Len(p) <= Len(s) /\ SubSeq(s, 1, Len(p)) = p

SetMin(S) == CHOOSE i \in S : \A j \in S : i <= j

\* index of the first occurrence of sub in s, 0 when there is none
find(s, sub) ==
    LET I == {i \in 1..(Len(s) - Len(sub) + 1) :
                 SubSeq(s, i, i + Len(sub) - 1) = sub}
    IN  IF I = {} THEN 0 ELSE SetMin(I)

contains(s, sub) == find(s, sub) # 0

partition(s, sep) ==
    LET i == find(s, sep)
    IN  IF i = 0 THEN <<s, <<>>, <<>>>>
        ELSE <<SubSeq(s, 1, i - 1), sep, SubSeq(s, i + Len(sep), Len(s))>>

RECURSIVE split(_, _)
split(s, c) ==
    LET i == find(s, <<c>>)
    IN  IF i = 0 THEN <<s>>
        ELSE <<SubSeq(s, 1, i - 1)>> \o split(SubSeq(s, i + 1, Len(s)), c)

RECURSIVE count(_, _)
count(s, c) ==
    IF s = <<>> THEN 0
    ELSE (IF Head(s) = c THEN 1 ELSE 0) + count(Tail(s), c)

UpperCase == {"F", "B", "T", "X"}

lower_char(c) ==
    CASE c = "F" -> "f" [] c = "B" -> "b" [] c = "T" -> "t" [] c = "X" -> "x"
      [] OTHER -> c

lower(s) == [i \in 1..Len(s) |-> lower_char(s[i])]

InSeq(x, sq) == \E i \in 1..Len(sq) : sq[i] = x

RECURSIVE repeat(_, _)
repeat(s, n) == IF n <= 0 THEN <<>> ELSE s \o repeat(s, n - 1)

-----------------------------------------------------------------------------
(* Values                                                                  *)

Abs(n) == IF n < 0 THEN -n ELSE n

RECURSIVE Gcd(_, _)
Gcd(a, b) == IF b = 0 THEN a ELSE Gcd(b, a % b)

\* the rational n/d in lowest terms, d > 0; float is Python's float/int tag
Num(n, d, float) ==
    LET g == Gcd(Abs(n), Abs(d))
        sg == IF d < 0 THEN -1 ELSE 1
    IN  [t |-> "num", n |-> sg * (n \div g), d |-> sg * (d \div g), float |-> float]

PyInt(n) == Num(n, 1, FALSE)
PyNone == [t |-> "none"]
PyBool(b) == [t |-> "bool", b |-> b]
PyStr(s) == [t |-> "str", s |-> s]
PyList(v) == [t |-> "list", v |-> v]
Raise(e, m) == [t |-> "exc", exc |-> e, msg |-> m]

IsRaise(v) == v.t = "exc"
\* bool is a subclass of int
IsNumber(v) == v.t \in {"num", "bool"}
AsNum(v) == IF v.t = "bool" THEN PyInt(IF v.b THEN 1 ELSE 0) ELSE v
IsInt(v) == IsNumber(v) /\ ~AsNum(v).float
SameNumber(v, w) == v.t = "num" /\ w.t = "num" /\ v.n = w.n /\ v.d = w.d

RECURSIVE IntPow(_, _)
IntPow(b, n) == IF n = 0 THEN 1 ELSE b * IntPow(b, n - 1)

TypeError == Raise("TypeError", <<>>)

\* operator.add
add(l, r) ==
    IF IsNumber(l) /\ IsNumber(r)
    THEN LET a == AsNum(l)
             b == AsNum(r)
         IN  Num(a.n * b.d + b.n * a.d, a.d * b.d, a.float \/ b.float)
    ELSE IF l.t = "str" /\ r.t = "str" THEN PyStr(l.s \o r.s)
    ELSE IF l.t = "list" /\ r.t = "list" THEN PyList(l.v \o r.v)
    ELSE TypeError

\* operator.sub
sub(l, r) ==
    IF IsNumber(l) /\ IsNumber(r)
    THEN LET a == AsNum(l)
             b == AsNum(r)
         IN  Num(a.n * b.d - b.n * a.d, a.d * b.d, a.float \/ b.float)
    ELSE TypeError

\* operator.mul
mul(l, r) ==
    IF IsNumber(l) /\ IsNumber(r)
    THEN LET a == AsNum(l)
             b == AsNum(r)
         IN  Num(a.n * b.n, a.d * b.d, a.float \/ b.float)
    ELSE IF l.t = "str" /\ IsInt(r) THEN PyStr(repeat(l.s, AsNum(r).n))
    ELSE IF IsInt(l) /\ r.t = "str" THEN PyStr(repeat(r.s, AsNum(l).n))
    ELSE IF l.t = "list" /\ IsInt(r) THEN PyList(repeat(l.v, AsNum(r).n))
    ELSE IF IsInt(l) /\ r.t = "list" THEN PyList(repeat(r.v, AsNum(l).n))
    ELSE TypeError

\* operator.truediv
truediv(l, r) ==
    IF IsNumber(l) /\ IsNumber(r)
    THEN LET a == AsNum(l)
             b == AsNum(r)
         IN  IF b.n = 0 THEN Raise("ZeroDivisionError", <<>>)
             ELSE Num(a.n * b.d, a.d * b.n, TRUE)
    ELSE TypeError

\* operator.pow; a power with a fractional exponent is not a rational and is
\* kept as the opaque value "real"
pow(l, r) ==
    IF IsNumber(l) /\ IsNumber(r)
    THEN LET a == AsNum(l)
             b == AsNum(r)
         IN  IF b.d # 1 THEN [t |-> "real"]
             ELSE IF b.n >= 0
             THEN Num(IntPow(a.n, b.n), IntPow(a.d, b.n), a.float \/ b.float)
             ELSE IF a.n = 0 THEN Raise("ZeroDivisionError", <<>>)
             ELSE Num(IntPow(a.d, -b.n), IntPow(a.n, -b.n), TRUE)
    ELSE TypeError

\* lambda x, y: x * 10**y
sci(x, y) ==
    LET p == pow(PyInt(10), y)
    IN  IF IsRaise(p) THEN p ELSE IF p.t = "real" THEN
            (IF IsNumber(x) THEN p ELSE TypeError)
        ELSE mul(x, p)

\* lambda l, r: -r
negate(l, r) ==
    IF IsNumber(r)
    THEN LET b == AsNum(r) IN Num(-b.n, b.d, b.float)
    ELSE TypeError

\* the functions of Expression.functions: abs is Python's, the others are
\* the external framework's and give an opaque value
call_function(name, x) ==
    IF ~IsNumber(x) THEN TypeError
    ELSE IF name = <<"a", "b", "s">>
    THEN LET b == AsNum(x) IN Num(Abs(b.n), b.d, b.float)
    ELSE [t |-> "ufl", f |-> name, arg |-> x]

-----------------------------------------------------------------------------
(* Nodes                                                                   *)

None == [k |-> "None"]

\* an exception raised while a tree is built; rt is Node._reserved_terminals
\* as the aborted construction leaves it
ParseError(e, m, rt) == [k |-> "X", exc |-> e, msg |-> m, rt |-> rt]

IsNode(n) == n.k \in {"E", "T", "L"}

\* Expression.operators: key -> (priority, callable, display symbol)
operators ==
    << [key |-> <<"+">>, prio |-> 0,  fn |-> "add",     sym |-> <<"+">>],
       [key |-> <<"-">>, prio |-> 0,  fn |-> "sub",     sym |-> <<"-">>],
       [key |-> <<"/">>, prio |-> 1,  fn |-> "truediv", sym |-> <<"/">>],
       [key |-> <<"*">>, prio |-> 1,  fn |-> "mul",     sym |-> <<"*">>],
       [key |-> <<"^">>, prio |-> 2,  fn |-> "pow",     sym |-> <<"^">>],
       [key |-> <<"e">>, prio |-> 3,  fn |-> "sci",     sym |-> <<"e">>],
       [key |-> <<"<", "n", "e", "g", "a", "t", "e", ">">>,
                         prio |-> 4,  fn |-> "negate",  sym |-> <<"-">>],
       [key |-> <<"<", "l", "e", "f", "t", ">">>,
                         prio |-> 11, fn |-> "left",    sym |-> <<>>] >>

HasOperator(key) == \E i \in 1..Len(operators) : operators[i].key = key
Operator(key) == operators[CHOOSE i \in 1..Len(operators) : operators[i].key = key]
op_negate == operators[7]
op_left == operators[8]

function_priority == 10

\* Expression.functions, in the order of the dictionary
functions ==
    << <<"a", "b", "s">>, <<"c", "o", "s">>, <<"e", "x", "p">>,
       <<"s", "i", "n">>, <<"s", "q", "r", "t">>, <<"t", "a", "n">> >>

FunctionOp(name) ==
    [key |-> name, prio |-> function_priority, fn |-> "function", sym |-> name]

\* the names Terminal._init adds to Node._reserved_terminals
ReservedNames ==
    << <<"f", "a", "l", "s", "e">>, <<"t", "r", "u", "e">>,
       <<"x", "[", "0", "]">>, <<"x", "[", "1", "]">>, <<"x", "[", "2", "]">>,
       <<"x">>, <<"y">>, <<"z">> >>

\* the names of a Registry, in the order of the dictionary
Names(ct) == [i \in 1..Len(ct) |-> ct[i][1]]

HasName(ct, name) == \E i \in 1..Len(ct) : ct[i][1] = name

Lookup(ct, name) == ct[CHOOSE i \in 1..Len(ct) : ct[i][1] = name][2]

\* Terminal._init: _string is stripped, the membership test uses s as given
Terminal(s, names) ==
    [k |-> "T", string |-> strip(s),
     used |-> IF InSeq(s, names) THEN <<s>> ELSE <<>>]

\* what Terminal._init leaves in Node._reserved_terminals
AfterTerminal(rt) ==
    IF InSeq(<<"f", "a", "l", "s", "e">>, rt) THEN rt ELSE rt \o ReservedNames

ExpressionNode(left, op, right) ==
    [k |-> "E", left |-> left, op |-> op, right |-> right]

AttachesEqual(self, f) == self.op.prio <= f.op.prio

AttachesGreater(self, f) == self.op.prio > f.op.prio

\* line 325: f is attached as it is when self binds less tightly than f
AttachesDirectly(self, f) == self.op.prio < f.op.prio

(* Expression.set_right.  self never has a parent when set_right runs: it   *)
(* is either the node under construction or a node whose parent was just   *)
(* cut, so parent.set_right(f) is not reached and the root of the tree     *)
(* that holds self after the call is the value returned here.              *)
RECURSIVE set_right(_, _, _)
set_right(self, f, rt) ==
    IF f.k = "T" THEN [self EXCEPT !.right = f]
    ELSE IF f.k # "E" THEN ParseError("AttributeError", <<>>, rt)
    ELSE IF AttachesDirectly(self, f) THEN [self EXCEPT !.right = f]
    ELSE IF f.left.k = "None" THEN ParseError("AttributeError", <<>>, rt)
    ELSE LET r == set_right(self, f.left, rt)
         IN  IF r.k = "X" THEN r ELSE [f EXCEPT !.left = r]

RECURSIVE Expression(_, _, _)
RECURSIVE List(_, _, _)

\* lines 221-227: extend left up to the closing bracket that balances it
RECURSIVE close_brackets(_, _, _, _)
close_brackets(left, rem, s, rt) ==
    IF count(left, "(") = count(left, ")")
    THEN [k |-> "ok", left |-> left, rem |-> rem]
    ELSE IF rem = <<>> THEN ParseError("ValueError", s, rt)
    ELSE IF ~contains(rem, <<")">>) THEN ParseError("ValueError", <<>>, rt)
    ELSE LET p == partition(rem, <<")">>)
         IN  close_brackets(left \o <<")">> \o p[1], p[3], s, rt)

\* lines 220-237: s starts with an open bracket
init_brackets(s, names, rt) ==
    IF ~contains(Tail(s), <<")">>) THEN ParseError("ValueError", <<>>, rt)
    ELSE
    LET p == partition(Tail(s), <<")">>)
        b == close_brackets(p[1], p[3], s, rt)
    IN  IF b.k = "X" THEN b
        ELSE IF b.rem # <<>>
        THEN LET l == Expression(<<"(">> \o b.left \o <<")">>, names, rt)
             IN  IF l.k = "X" THEN l
                 ELSE IF ~HasOperator(<<b.rem[1]>>)
                 THEN ParseError("KeyError", <<b.rem[1]>>, AfterTerminal(rt))
                 ELSE LET f == Expression(Tail(b.rem), names, AfterTerminal(rt))
                      IN  IF f.k = "X" THEN f
                          ELSE set_right(ExpressionNode(l, Operator(<<b.rem[1]>>), None),
                                         f, AfterTerminal(rt))
        ELSE LET l == Expression(b.left, names, rt)
             IN  IF l.k = "X" THEN l ELSE ExpressionNode(l, op_left, None)

\* lines 240-244: s starts with a minus sign
init_negate(s, names, rt) ==
    LET f == Expression(Tail(s), names, rt)
    IN  IF f.k = "X" THEN f
        ELSE set_right(ExpressionNode(None, op_negate, None), f, AfterTerminal(rt))

\* line 248: the first function name that s starts with, followed by "("
StartingFunction(s) ==
    LET I == {i \in 1..Len(functions) : startswith(s, functions[i] \o <<"(">>)}
    IN  IF I = {} THEN <<>> ELSE functions[SetMin(I)]

\* lines 247-252
init_function(s, func_name, names, rt) ==
    LET f == Expression(SubSeq(s, Len(func_name) + 1, Len(s)), names, rt)
    IN  IF f.k = "X" THEN f
        ELSE set_right(ExpressionNode(None, FunctionOp(func_name), None),
                       f, AfterTerminal(rt))

\* line 258: tmp_s.startswith(tuple(self.operators.keys()))
StartsWithOperator(tmp_s) ==
    \E i \in 1..Len(operators) : startswith(tmp_s, operators[i].key)

\* lines 255-265: the first custom or reserved terminal that s starts with
\* and that is followed by an operator or by nothing; 0 when there is none
StartingTerminal(s, terminals) ==
    LET I == {i \in 1..Len(terminals) :
                 /\ startswith(s, terminals[i])
                 /\ LET tmp_s == strip(SubSeq(s, Len(terminals[i]) + 1, Len(s)))
                    IN  StartsWithOperator(tmp_s) \/ tmp_s = <<>>}
    IN  IF I = {} THEN 0 ELSE SetMin(I)

\* lines 269-274: the partition with the shortest left part; an empty left
\* part counts only when the left argument is already set
RECURSIVE best_partition(_, _, _, _)
best_partition(s, has_left, i, best) ==
    IF i > Len(operators) THEN best
    ELSE LET part == partition(s, operators[i].key)
             is_left == has_left \/ part[1] # <<>>
         IN  best_partition(s, has_left, i + 1,
                 IF is_left /\ Len(part[1]) < Len(best[1]) THEN part ELSE best)

\* lines 254-291
init_infix(s0, names, rt) ==
    LET terminals == names \o rt
        ti == StartingTerminal(s0, terminals)
        left0 == IF ti = 0 THEN None ELSE Terminal(terminals[ti], names)
        rt0 == IF ti = 0 THEN rt ELSE AfterTerminal(rt)
        s == IF ti = 0 THEN s0
             ELSE strip(SubSeq(s0, Len(terminals[ti]) + 1, Len(s0)))
    IN  IF ti # 0 /\ s = <<>> THEN ExpressionNode(left0, op_left, None)
        ELSE
        LET best == best_partition(s, ti # 0, 1, <<s, <<>>, <<>>>>)
        IN  IF best[1] = s
            THEN IF ti = 0
                 THEN ExpressionNode(Terminal(s, names), op_left, None)
                 ELSE ParseError("RuntimeError", s, rt0)
            ELSE LET left == IF ti = 0 THEN Terminal(best[1], names) ELSE left0
                     f == Expression(best[3], names, AfterTerminal(rt))
                 IN  IF f.k = "X" THEN f
                     ELSE set_right(ExpressionNode(left, Operator(best[2]), None),
                                    f, AfterTerminal(rt))

\* Expression._init followed by root(): the root of the tree built from s
Expression(s0, names, rt) ==
    LET s == strip(s0)
    IN  IF contains(s, <<",">>)
        THEN LET l == List(s, names, rt)
             IN  IF l.k = "X" THEN l ELSE ExpressionNode(l, op_left, None)
        ELSE IF s = <<>> THEN ParseError("IndexError", <<>>, rt)
        ELSE IF s[1] = "(" THEN init_brackets(s, names, rt)
        ELSE IF s[1] = "-" THEN init_negate(s, names, rt)
        ELSE IF StartingFunction(s) # <<>>
        THEN init_function(s, StartingFunction(s), names, rt)
        ELSE init_infix(s, names, rt)

\* Expression.used_terminals, Node.used_terminals
RECURSIVE used_terminals(_)
used_terminals(n) ==
    IF n.k = "E" THEN used_terminals(n.left) \o used_terminals(n.right)
    ELSE IF n.k \in {"T", "L"} THEN n.used
    ELSE <<>>

\* lines 425-429: the children of a List and the names they use
RECURSIVE list_children(_, _, _)
list_children(segments, names, rt) ==
    IF segments = <<>> THEN [k |-> "ok", children |-> <<>>, used |-> <<>>]
    ELSE LET child == Expression(Head(segments), names, rt)
         IN  IF child.k = "X" THEN child
             ELSE LET rest == list_children(Tail(segments), names, AfterTerminal(rt))
                  IN  IF rest.k = "X" THEN rest
                      ELSE [k |-> "ok", children |-> <<child>> \o rest.children,
                            used |-> used_terminals(child) \o rest.used]

\* List._init
List(s, names, rt) ==
    LET c == list_children(split(s, ","), names, rt)
    IN  IF c.k = "X" THEN c
        ELSE [k |-> "L", children |-> c.children, used |-> c.used]

-----------------------------------------------------------------------------
(* Evaluation                                                              *)

Digits == {"0", "1", "2", "3", "4", "5", "6", "7", "8", "9"}

DigitValue(c) ==
    CASE c = "0" -> 0 [] c = "1" -> 1 [] c = "2" -> 2 [] c = "3" -> 3
      [] c = "4" -> 4 [] c = "5" -> 5 [] c = "6" -> 6 [] c = "7" -> 7
      [] c = "8" -> 8 [] c = "9" -> 9

IsDigits(s) == s # <<>> /\ \A i \in 1..Len(s) : s[i] \in Digits

RECURSIVE DigitsValue(_)
DigitsValue(s) ==
    IF s = <<>> THEN 0
    ELSE 10 * DigitsValue(SubSeq(s, 1, Len(s) - 1)) + DigitValue(s[Len(s)])

Unsigned(s) == IF s # <<>> /\ s[1] \in {"+", "-"} THEN Tail(s) ELSE s
Sign(s) == IF s # <<>> /\ s[1] = "-" THEN -1 ELSE 1

\* int(s) succeeds: an optional sign and decimal digits
IsIntLiteral(s) == IsDigits(Unsigned(s))
IntLiteral(s) == PyInt(Sign(s) * DigitsValue(Unsigned(s)))

\* float(s) succeeds: an optional sign and digits around one decimal point
IsFloatLiteral(s) ==
    LET u == Unsigned(s)
        p == partition(u, <<".">>)
    IN  \/ IsDigits(u)
        \/ /\ p[2] # <<>>
           /\ p[1] \o p[3] # <<>>
           /\ \A i \in 1..Len(p[1] \o p[3]) : (p[1] \o p[3])[i] \in Digits

FloatLiteral(s) ==
    LET u == Unsigned(s)
        p == partition(u, <<".">>)
    IN  Num(Sign(s) * DigitsValue(p[1] \o p[3]), IntPow(10, Len(p[3])), TRUE)

\* Terminal.evaluate with mesh = None
Terminal_evaluate_as_parsed(self, ct) ==
    IF self.used # <<>> /\ HasName(ct, self.string) THEN Lookup(ct, self.string)
    ELSE IF lower(self.string) = <<"t", "r", "u", "e">> THEN PyBool(TRUE)
    ELSE IF lower(self.string) = <<"f", "a", "l", "s", "e">> THEN PyBool(FALSE)
    ELSE IF IsIntLiteral(self.string) THEN IntLiteral(self.string)
    ELSE IF IsFloatLiteral(self.string) THEN FloatLiteral(self.string)
    ELSE PyStr(strip_char(strip_char(self.string, "\""), "'"))

Terminal_evaluate(self, ct) ==
    IF HasName(ct, self.string) THEN Lookup(ct, self.string)
    ELSE IF lower(self.string) = <<"t", "r", "u", "e">> THEN PyBool(TRUE)
    ELSE IF lower(self.string) = <<"f", "a", "l", "s", "e">> THEN PyBool(FALSE)
    ELSE IF IsIntLiteral(self.string) THEN IntLiteral(self.string)
    ELSE IF IsFloatLiteral(self.string) THEN FloatLiteral(self.string)
    ELSE PyStr(strip_char(strip_char(self.string, "\""), "'"))

\* lines 525-536: str_to_spatial_coords_lookup for a mesh whose
\* SpatialCoordinate has dim components, as a sequence of <<name, axis>>
str_to_spatial_coords_lookup(dim) ==
    << <<<<"x">>, 0>>, <<<<"x", "[", "0", "]">>, 0>> >>
    \o (IF dim > 1 THEN << <<<<"y">>, 1>>, <<<<"x", "[", "1", "]">>, 1>> >> ELSE <<>>)
    \o (IF dim > 2 THEN << <<<<"z">>, 2>>, <<<<"x", "[", "2", "]">>, 2>> >> ELSE <<>>)

\* Function(V).interpolate(x[axis]): a value of the external framework
Interpolated(axis) == [t |-> "ufl", f |-> <<"x">>, arg |-> PyInt(axis)]

Terminal_literal_first(self, ct, dim) ==
    IF lower(self.string) = <<"t", "r", "u", "e">> THEN PyBool(TRUE)
    ELSE IF lower(self.string) = <<"f", "a", "l", "s", "e">> THEN PyBool(FALSE)
    ELSE IF IsIntLiteral(self.string) THEN IntLiteral(self.string)
    ELSE IF IsFloatLiteral(self.string) THEN FloatLiteral(self.string)
    ELSE IF HasName(ct, self.string) THEN Lookup(ct, self.string)
    ELSE IF dim > 0 /\ HasName(str_to_spatial_coords_lookup(dim), self.string)
    THEN Interpolated(Lookup(str_to_spatial_coords_lookup(dim), self.string))
    ELSE PyStr(strip_char(strip_char(self.string, "\""), "'"))

\* Terminal.evaluate(mesh, V): dim is 0 when mesh is None, otherwise the
\* number of components of SpatialCoordinate(mesh)
Terminal_evaluate_mesh(self, ct, dim) ==
    IF HasName(ct, self.string) THEN Lookup(ct, self.string)
    ELSE IF lower(self.string) = <<"t", "r", "u", "e">> THEN PyBool(TRUE)
    ELSE IF lower(self.string) = <<"f", "a", "l", "s", "e">> THEN PyBool(FALSE)
    ELSE IF IsIntLiteral(self.string) THEN IntLiteral(self.string)
    ELSE IF IsFloatLiteral(self.string) THEN FloatLiteral(self.string)
    ELSE IF dim > 0 /\ HasName(str_to_spatial_coords_lookup(dim), self.string)
    THEN Interpolated(Lookup(str_to_spatial_coords_lookup(dim), self.string))
    ELSE PyStr(strip_char(strip_char(self.string, "\""), "'"))

\* Expression.__str__, List.__str__, Terminal.__str__
RECURSIVE str(_)
RECURSIVE join(_)
join(children) ==
    IF children = <<>> THEN <<>>
    ELSE IF Len(children) = 1 THEN str(children[1])
    ELSE str(children[1]) \o <<",", " ">> \o join(Tail(children))

str(n) ==
    IF n.k = "T" THEN n.string
    ELSE IF n.k = "L" THEN <<"[">> \o join(n.children) \o <<"]">>
    ELSE LET str_rep == (IF n.left.k # "None" THEN str(n.left) ELSE <<>>)
                        \o n.op.sym
                        \o (IF n.right.k # "None" THEN str(n.right) ELSE <<>>)
         IN  IF n.left.k # "None" /\ n.right.k # "None"
             THEN <<"(">> \o str_rep \o <<")">>
             ELSE str_rep

\* self._op[1](left, right), or self._op[1](right) for a function
apply(op, left, right) ==
    CASE op.fn = "add" -> add(left, right)
      [] op.fn = "sub" -> sub(left, right)
      [] op.fn = "truediv" -> truediv(left, right)
      [] op.fn = "mul" -> mul(left, right)
      [] op.fn = "pow" -> pow(left, right)
      [] op.fn = "sci" -> sci(left, right)
      [] op.fn = "negate" -> negate(left, right)
      [] op.fn = "left" -> left
      [] op.fn = "function" -> call_function(op.sym, right)

\* Expression.evaluate, List.evaluate, Terminal.evaluate; an absent child
\* evaluates to None
RECURSIVE evaluate(_, _)
RECURSIVE evaluate_children(_, _)
evaluate_backwards(children, ct) ==
    IF children = <<>> THEN PyList(<<>>)
    ELSE LET v == evaluate(Head(children), ct)
         IN  IF IsRaise(v) THEN v
             ELSE LET rest == evaluate_children(Tail(children), ct)
                  IN  IF IsRaise(rest) THEN rest ELSE PyList(rest.v \o <<v>>)

evaluate_children(children, ct) ==
    IF children = <<>> THEN PyList(<<>>)
    ELSE LET v == evaluate(Head(children), ct)
         IN  IF IsRaise(v) THEN v
             ELSE LET rest == evaluate_children(Tail(children), ct)
                  IN  IF IsRaise(rest) THEN rest ELSE PyList(<<v>> \o rest.v)

evaluate_unguarded(n, ct) ==
    IF n.k = "None" THEN PyNone
    ELSE IF n.k = "T" THEN Terminal_evaluate(n, ct)
    ELSE IF n.k = "L" THEN evaluate_children(n.children, ct)
    ELSE LET left == evaluate(n.left, ct)
         IN  IF IsRaise(left) THEN left
             ELSE LET right == evaluate(n.right, ct)
                  IN  IF IsRaise(right) THEN right
                      ELSE apply(n.op, left, right)

evaluate(n, ct) ==
    IF n.k = "None" THEN PyNone
    ELSE IF n.k = "T" THEN Terminal_evaluate(n, ct)
    ELSE IF n.k = "L" THEN evaluate_children(n.children, ct)
    ELSE LET left == evaluate(n.left, ct)
         IN  IF IsRaise(left) THEN left
             ELSE LET right == evaluate(n.right, ct)
                  IN  IF IsRaise(right) THEN right
                      ELSE LET v == apply(n.op, left, right)
                           IN  IF IsRaise(v) /\ v.exc = "TypeError"
                               THEN Raise("RuntimeError", str(n))
                               ELSE v

\* Node.ready: the loop over used_terminals; a name that is not in the
\* Registry raises KeyError at the subscript
RECURSIVE ready_loop(_, _)
ready_loop(used, ct) ==
    IF used = <<>> THEN PyBool(TRUE)
    ELSE IF ~HasName(ct, Head(used)) THEN Raise("KeyError", Head(used))
    ELSE IF Lookup(ct, Head(used)) = PyNone THEN PyBool(FALSE)
    ELSE ready_loop(Tail(used), ct)

ready(n, ct) == ready_loop(used_terminals(n), ct)

-----------------------------------------------------------------------------
(* The Registry: Node._custom_terminals                                    *)

\* Node.clear_terminals
clear_terminals(ct) == <<>>

\* what a call on the Registry leaves: the Registry, and the exception it
\* raised or None
Returned(ct) == [ct |-> ct, exc |-> PyNone]
Threw(ct, e) == [ct |-> ct, exc |-> e]

subscribe_overwrites(ct, name, value) ==
    IF ~HasName(ct, name) THEN Returned(Append(ct, <<name, value>>))
    ELSE Returned([i \in 1..Len(ct) |->
                      IF ct[i][1] = name THEN <<name, value>> ELSE ct[i]])

\* Node.subscribe_terminal
subscribe_terminal(ct, name, value) ==
    IF HasName(ct, name) THEN Threw(ct, Raise("AttributeError", name))
    ELSE Returned(Append(ct, <<name, value>>))

update_or_add(ct, name, value) ==
    IF ~HasName(ct, name) THEN Returned(Append(ct, <<name, value>>))
    ELSE Returned([i \in 1..Len(ct) |->
                      IF ct[i][1] = name THEN <<name, value>> ELSE ct[i]])

\* Node.update_terminal
update_terminal(ct, name, value) ==
    IF ~HasName(ct, name) THEN Threw(ct, Raise("AttributeError", name))
    ELSE Returned([i \in 1..Len(ct) |->
                      IF ct[i][1] = name THEN <<name, value>> ELSE ct[i]])

-----------------------------------------------------------------------------
(* Dictionaries                                                            *)

\* a dict below the top level: a function from keys to values
Dict(f) == [t |-> "dict", d |-> f]
EmptyDict == Dict([x \in {} |-> PyNone])

\* an Expression object kept as a dictionary value
Unevaluated(tree) == [t |-> "expr", tree |-> tree]

has_key(dict, key) == key \in DOMAIN dict.d
set_item(dict, key, v) ==
    Dict([x \in DOMAIN dict.d \cup {key} |-> IF x = key THEN v ELSE dict.d[x]])
pop(dict, key) == Dict([x \in DOMAIN dict.d \ {key} |-> dict.d[x]])

\* lines 600-603 and 612 below the first key: tmp_dict[keys[-1]] = v after
\* walking keys[:-1], creating the dictionaries that are missing.  Walking
\* into a value that is not a dictionary raises TypeError.
RECURSIVE set_path(_, _, _)
set_path(dict, keys, v) ==
    IF dict.t # "dict" THEN TypeError
    ELSE IF Len(keys) = 1 THEN set_item(dict, keys[1], v)
    ELSE LET inner == IF has_key(dict, keys[1]) THEN dict.d[keys[1]] ELSE EmptyDict
             new == set_path(inner, Tail(keys), v)
         IN  IF IsRaise(new) THEN new ELSE set_item(dict, keys[1], new)

\* the top level of outputs and util_functions keeps the order of insertion:
\* a sequence of <<key, value>>
top_has(top, key) == \E i \in 1..Len(top) : top[i][1] = key
top_get(top, key) == top[CHOOSE i \in 1..Len(top) : top[i][1] = key][2]
top_set(top, key, v) ==
    IF top_has(top, key)
    THEN [i \in 1..Len(top) |-> IF top[i][1] = key THEN <<key, v>> ELSE top[i]]
    ELSE Append(top, <<key, v>>)

\* the value the walk of lines 600-603 reaches after the keys of path, or
\* Missing when the walk would create it
Missing == [t |-> "missing"]

RECURSIVE get_path(_, _)
get_path(v, path) ==
    IF path = <<>> THEN v
    ELSE IF v.t # "dict" \/ ~has_key(v, path[1]) THEN Missing
    ELSE get_path(v.d[path[1]], Tail(path))

top_get_path(top, path) ==
    IF path = <<>> THEN EmptyDict
    ELSE IF ~top_has(top, path[1]) THEN Missing
    ELSE get_path(top_get(top, path[1]), Tail(path))

\* lines 600-603: "key not in tmp_dict" reaches a value that is not a
\* dictionary before the last of keys[:-1] is walked
walk_raises(top, keys) ==
    \E n \in 1..(Len(keys) - 2) :
        LET v == top_get_path(top, SubSeq(keys, 1, n))
        IN  v.t \notin {"dict", "missing"}

\* line 612: tmp_dict is not a dictionary
assign_raises(top, keys) ==
    LET v == top_get_path(top, SubSeq(keys, 1, Len(keys) - 1))
    IN  v.t \notin {"dict", "missing"}

\* lines 600-603 and 612 when none of them raises
top_set_path(top, keys, v) ==
    IF Len(keys) = 1 THEN top_set(top, keys[1], v)
    ELSE LET inner == IF top_has(top, keys[1]) THEN top_get(top, keys[1]) ELSE EmptyDict
         IN  top_set(top, keys[1], set_path(inner, Tail(keys), v))

\* the dictionary a caller sees: the order of the keys does not matter
AsDict(top) ==
    Dict([x \in {top[i][1] : i \in 1..Len(top)} |-> top_get(top, x)])

-----------------------------------------------------------------------------
(* process_args                                                            *)

\* lines 582-584
tmp_functions(section) ==
    {split(Tail(section[i][1]), ".")[1] :
        i \in {j \in 1..Len(section) : startswith(section[j][1], <<"_">>)}}

\* lines 586-587; order is the order in which the set yields its names
RECURSIVE subscribe_all(_, _)
subscribe_all(ct, order) ==
    IF order = <<>> THEN Returned(ct)
    ELSE LET r == subscribe_terminal(ct, Head(order), PyNone)
         IN  IF r.exc # PyNone THEN r ELSE subscribe_all(r.ct, Tail(order))

\* the exception of a failed parse as process_args lets it out
AsRaise(x) == Raise(x.exc, x.msg)

\* what lines 574-612 have built: exc is the exception that ended them or None
Built(ct, rt, out, util, te, exc) ==
    [ct |-> ct, rt |-> rt, outputs |-> out, util |-> util, te |-> te, exc |-> exc]

\* lines 607-612 for one entry: tree is Expression(v), is_ready and val what
\* its ready() and evaluate() give
entry_stored(b, interim, keys, v0, parsed, tree, is_ready, val) ==
    LET top == IF interim THEN b.util ELSE b.outputs
        rt == IF ~parsed THEN b.rt
              ELSE IF tree.k = "X" THEN tree.rt ELSE AfterTerminal(b.rt)
        v == IF ~parsed THEN PyStr(v0)
             ELSE IF is_ready THEN val ELSE Unevaluated(tree)
        te == IF parsed /\ ~is_ready
              THEN Append(b.te, [keys |-> keys, expr |-> tree]) ELSE b.te
    IN  IF walk_raises(top, keys) THEN [b EXCEPT !.exc = TypeError]
        ELSE IF parsed /\ tree.k = "X"
        THEN [b EXCEPT !.exc = AsRaise(tree), !.rt = rt]
        ELSE IF parsed /\ is_ready /\ IsRaise(val)
        THEN [b EXCEPT !.exc = val, !.rt = rt]
        ELSE IF assign_raises(top, keys)
        THEN [b EXCEPT !.exc = TypeError, !.rt = rt, !.te = te]
        ELSE IF interim
        THEN [b EXCEPT !.util = top_set_path(top, keys, v), !.rt = rt, !.te = te]
        ELSE [b EXCEPT !.outputs = top_set_path(top, keys, v), !.rt = rt, !.te = te]

\* lines 605-612 for one entry: tree is Expression(v)
entry_parsed(b, interim, keys, v0, parsed, tree) ==
    entry_stored(b, interim, keys, v0, parsed, tree,
                 ready(tree, b.ct) = PyBool(TRUE), evaluate(tree, b.ct))

entry_always_parsed(b, interim, keys, v0, str_keys) ==
    entry_parsed(b, interim, keys, v0, TRUE, Expression(v0, Names(b.ct), b.rt))

\* lines 592-598 for one entry: the dictionary and the keys
entry_keys(b, interim, keys, v0, str_keys) ==
    entry_parsed(b, interim, keys, v0, ~InSeq(keys[Len(keys)], str_keys),
                 Expression(v0, Names(b.ct), b.rt))

\* lines 591-612 for one entry
process_entry(b, k0, v0, str_keys) ==
    IF startswith(k0, <<"_">>)
    THEN entry_keys(b, TRUE, split(lower(Tail(k0)), "."), v0, str_keys)
    ELSE entry_keys(b, FALSE, split(lower(k0), "."), v0, str_keys)

\* lines 591-612
RECURSIVE process_entries(_, _, _)
process_entries(b, section, str_keys) ==
    IF section = <<>> \/ b.exc # PyNone THEN b
    ELSE process_entries(process_entry(b, section[1][1], section[1][2], str_keys),
                         Tail(section), str_keys)

cleaned_never(ct, clean) == ct

\* line 577: clean empties the Registry
cleaned(ct, clean) == IF clean THEN clear_terminals(ct) ELSE ct

\* lines 574-612
process_args_begin(section, str_keys, clean, order, ct, rt) ==
    LET s == subscribe_all(cleaned(ct, clean), order)
    IN  IF s.exc # PyNone THEN Built(s.ct, rt, <<>>, <<>>, <<>>, s.exc)
        ELSE process_entries(Built(s.ct, rt, <<>>, <<>>, <<>>, PyNone),
                             section, str_keys)

\* factory.create_function(f_type, **v): the external builder, kept as the
\* record of its arguments
create_function(f_type, props) == [t |-> "function", type |-> f_type, props |-> props]

type_key == <<"t", "y", "p", "e">>

\* lines 624-627: tmp[keys[-1]] = val with tmp = v, or tmp = v[n] for the
\* last n of keys[1:-1]; every v[n] is read
store_raises(v, keys) ==
    \/ v.t # "dict"
    \/ \E n \in 2..(Len(keys) - 1) : ~has_key(v, keys[n])
    \/ Len(keys) > 2 /\ v.d[keys[Len(keys) - 1]].t # "dict"

store_exception(v, keys) ==
    IF v.t # "dict" THEN TypeError
    ELSE IF \E n \in 2..(Len(keys) - 1) : ~has_key(v, keys[n])
    THEN Raise("KeyError", <<>>)
    ELSE TypeError

store(v, keys, val) ==
    IF Len(keys) = 2 THEN set_item(v, keys[2], val)
    ELSE LET n == keys[Len(keys) - 1]
         IN  set_item(v, n, set_item(v.d[n], keys[Len(keys)], val))

\* the state of the loop of lines 619-632 over to_evaluate for one name k:
\* v is the local v, rebound tells that v no longer is util_functions[k]
Inner(v, rebound, evaluated, broke, exc) ==
    [v |-> v, rebound |-> rebound, evaluated |-> evaluated, broke |-> broke,
     exc |-> exc]

\* lines 619-632 from entry i on
RECURSIVE inner_loop(_, _, _, _, _)
RECURSIVE inner_step(_, _, _, _, _, _, _)
inner_loop(st, k, i, te, ct) ==
    IF i > Len(te) \/ st.broke \/ st.exc # PyNone THEN st
    ELSE IF te[i].keys[1] # k THEN inner_loop(st, k, i + 1, te, ct)
    ELSE inner_step(st, k, i, te, ct, ready(te[i].expr, ct),
                    evaluate(te[i].expr, ct))

\* lines 621-632 for entry i: r and val are what its ready() and evaluate()
\* give
inner_step(st, k, i, te, ct, r, val) ==
    IF IsRaise(r) THEN [st EXCEPT !.exc = r]
    ELSE IF r = PyBool(FALSE) THEN [st EXCEPT !.broke = TRUE]
    ELSE IF IsRaise(val) THEN [st EXCEPT !.exc = val]
    ELSE IF Len(te[i].keys) > 1
    THEN IF store_raises(st.v, te[i].keys)
         THEN [st EXCEPT !.exc = store_exception(st.v, te[i].keys)]
         ELSE inner_loop([st EXCEPT !.v = store(st.v, te[i].keys, val),
                                    !.evaluated = @ \cup {i}],
                         k, i + 1, te, ct)
    ELSE inner_loop([st EXCEPT !.v = val, !.rebound = TRUE,
                               !.evaluated = @ \cup {i}],
                    k, i + 1, te, ct)

without_none(te, evaluated, i) == te

\* lines 640-641
RECURSIVE without(_, _, _)
without(te, evaluated, i) ==
    IF i > Len(te) THEN <<>>
    ELSE (IF i \in evaluated THEN <<>> ELSE <<te[i]>>) \o without(te, evaluated, i + 1)

\* the state of one round of the loop of line 615
Round(ct, util, te, subscribed, calls, exc) ==
    [ct |-> ct, util |-> util, te |-> te, subscribed |-> subscribed,
     calls |-> calls, exc |-> exc]

publish_unbuilt(r, k, v, has_factory) ==
    LET u == update_terminal(r.ct, k, v)
    IN  IF u.exc # PyNone THEN [r EXCEPT !.exc = u.exc]
        ELSE [r EXCEPT !.ct = u.ct, !.subscribed = Append(@, k),
                       !.calls = @ \o
                           <<[call |-> "update_terminal", name |-> k, value |-> v]>>]

\* lines 634-638: the value is built when it has a type, and published
publish(r, k, v, has_factory) ==
    LET built == v.t = "dict" /\ has_key(v, type_key)
        value == IF built THEN create_function(v.d[type_key], pop(v, type_key)) ELSE v
        u == update_terminal(r.ct, k, value)
        calls == IF built THEN <<[call |-> "create_function", name |-> k, value |-> v]>>
                 ELSE <<>>
    IN  IF built /\ ~has_factory
        THEN [r EXCEPT !.exc = Raise("AttributeError", <<>>)]
        ELSE IF u.exc # PyNone
        THEN [r EXCEPT !.exc = u.exc, !.calls = @ \o calls]
        ELSE [r EXCEPT !.ct = u.ct, !.subscribed = Append(@, k),
                       !.calls = @ \o calls \o
                           <<[call |-> "update_terminal", name |-> k, value |-> value]>>]

\* lines 640-641 after lines 634-638 went through
filtered(r, te) == IF r.exc # PyNone THEN r ELSE [r EXCEPT !.te = te]

\* lines 633-641 for the name k at position n: st is what the loop over
\* to_evaluate left
after_inner(r, n, k, has_factory, st) ==
    \* a dictionary is changed in place: util_functions sees it
    IF st.exc # PyNone
    THEN [r EXCEPT !.util = IF st.rebound THEN @ ELSE [@ EXCEPT ![n] = <<k, st.v>>],
                   !.exc = st.exc]
    ELSE IF st.broke
    THEN [r EXCEPT !.util = IF st.rebound THEN @ ELSE [@ EXCEPT ![n] = <<k, st.v>>],
                   !.te = without(r.te, st.evaluated, 1)]
    ELSE filtered(publish([r EXCEPT !.util = IF st.rebound THEN @
                                              ELSE [@ EXCEPT ![n] = <<k, st.v>>]],
                          k, st.v, has_factory),
                  without(r.te, st.evaluated, 1))

\* lines 617-641 for the name at position n of util_functions
for_name(r, n, has_factory) ==
    after_inner(r, n, r.util[n][1], has_factory,
                inner_loop(Inner(r.util[n][2], FALSE, {}, FALSE, PyNone),
                           r.util[n][1], 1, r.te, r.ct))

\* lines 617-641
RECURSIVE for_names(_, _, _)
for_names(r, n, has_factory) ==
    IF n > Len(r.util) \/ r.exc # PyNone THEN r
    ELSE for_names(for_name(r, n, has_factory), n + 1, has_factory)

not_subscribed_kept(util, subscribed) == util

\* lines 643-644
RECURSIVE not_subscribed(_, _)
not_subscribed(util, subscribed) ==
    IF util = <<>> THEN <<>>
    ELSE (IF InSeq(util[1][1], subscribed) THEN <<>> ELSE <<util[1]>>)
         \o not_subscribed(Tail(util), subscribed)

\* lines 643-644 at the end of a round
end_round(r) ==
    IF r.exc # PyNone THEN r
    ELSE [r EXCEPT !.util = not_subscribed(r.util, r.subscribed)]

\* lines 616-644: one round of the resolution loop
process_args_round(ct, util, te, has_factory) ==
    end_round(for_names(Round(ct, util, te, <<>>, <<>>, PyNone), 1, has_factory))

\* tmp_dict = tmp_dict[n] for the keys of path, from v
RECURSIVE subscript_path(_, _)
subscript_path(v, path) ==
    IF path = <<>> THEN v
    ELSE IF v.t # "dict" THEN TypeError
    ELSE IF ~has_key(v, path[1]) THEN Raise("KeyError", path[1])
    ELSE subscript_path(v.d[path[1]], Tail(path))

\* lines 646-650 from the first entry of te on: outputs, and the exception
\* that ended the loop or None
RECURSIVE force(_, _, _)
RECURSIVE force_entry(_, _, _, _, _)
force(out, te, ct) ==
    IF te = <<>> THEN [outputs |-> out, exc |-> PyNone]
    ELSE force_entry(out, te, ct,
                     subscript_path(AsDict(out),
                                    SubSeq(te[1].keys, 1, Len(te[1].keys) - 1)),
                     evaluate(te[1].expr, ct))

\* lines 647-650 for the first entry of te: tmp_dict is what the walk
\* reaches, val what evaluate() gives
force_entry(out, te, ct, tmp_dict, val) ==
    IF IsRaise(tmp_dict) THEN [outputs |-> out, exc |-> tmp_dict]
    ELSE IF IsRaise(val) THEN [outputs |-> out, exc |-> val]
    ELSE IF tmp_dict.t # "dict" THEN [outputs |-> out, exc |-> TypeError]
    ELSE force(top_set_path(out, te[1].keys, val), Tail(te), ct)

in_range_once(done, bound) == done < 1

in_range_again(done, bound) == done <= bound

\* line 615: another round is due
in_range(done, bound) == done < bound

-----------------------------------------------------------------------------
(* The steps of process_args                                               *)

\* process_args is called: lines 574-612, up to the resolution loop
Call(section, has_factory, str_keys, clean, order) ==
    \E b \in {process_args_begin(section, str_keys, clean, order,
                                  custom_terminals, reserved_terminals)} :
        /\ conf' = section
        /\ custom_terminals' = b.ct
        /\ reserved_terminals' = b.rt
        /\ outputs' = b.outputs
        /\ util_functions' = b.util
        /\ to_evaluate' = b.te
        /\ rounds' = 0
        /\ round_bound' = Len(b.te) + 1
        /\ log' = <<>>
        /\ ncalls' = ncalls + 1
        /\ expr' = None
        /\ result' = b.exc
        /\ pc' = IF b.exc # PyNone THEN "raised" ELSE "loop"

\* one round of the resolution loop: lines 616-644
ResolutionRound ==
    /\ pc = "loop"
    /\ in_range(rounds, round_bound)
    /\ \E r \in {process_args_round(custom_terminals, util_functions, to_evaluate,
                                     src.has_factory)} :
           /\ custom_terminals' = r.ct
           /\ util_functions' = r.util
           /\ to_evaluate' = r.te
           /\ log' = log \o r.calls
           /\ rounds' = rounds + 1
           /\ result' = r.exc
           /\ pc' = IF r.exc # PyNone THEN "raised" ELSE "loop"
    /\ UNCHANGED <<reserved_terminals, src, expr, conf, outputs, round_bound, ncalls>>

\* the loop is over: lines 646-652
Return ==
    /\ pc = "loop"
    /\ ~in_range(rounds, round_bound)
    /\ \E f \in {force(outputs, to_evaluate, custom_terminals)} :
           /\ outputs' = f.outputs
           /\ result' = IF f.exc # PyNone THEN f.exc ELSE AsDict(f.outputs)
           /\ pc' = IF f.exc # PyNone THEN "raised" ELSE "returned"
    /\ UNCHANGED <<custom_terminals, reserved_terminals, src, expr, conf,
                   util_functions, to_evaluate, rounds, round_bound, log, ncalls>>

-----------------------------------------------------------------------------
(* Sections with three interim names, foo, bar and baz, and the final      *)
(* entry test = foo + 1.  bar is a literal; foo and baz are each a         *)
(* literal, their own name, the double of another name or a sum of names.  *)

MaxDeps == 2

foo == <<"f", "o", "o">>
bar == <<"b", "a", "r">>
baz == <<"b", "a", "z">>
test == <<"t", "e", "s", "t">>

InterimNames == <<foo, bar, baz>>
InterimLiterals == << <<"2">>, <<"1", "7", ".", "0">>, <<"3">> >>
Interim == 1..Len(InterimNames)

\* for each name, the names its value refers to
Graphs ==
    {g \in [Interim -> SUBSET Interim] :
        g[2] = {} /\ \A n \in Interim : Cardinality(g[n]) <= MaxDeps}

RECURSIVE Sum(_, _)
Sum(D, from) ==
    IF \A m \in D : m <= from THEN InterimNames[from]
    ELSE IF from \notin D THEN Sum(D, from + 1)
    ELSE InterimNames[from] \o <<" ", "+", " ">> \o Sum(D, from + 1)

InterimValue(g, n) ==
    IF g[n] = {} THEN InterimLiterals[n]
    ELSE IF g[n] = {n} THEN InterimNames[n]
    ELSE IF Cardinality(g[n]) = 1
    THEN InterimNames[CHOOSE m \in g[n] : TRUE] \o <<" ", "*", " ", "2">>
    ELSE Sum(g[n], 1)

Section(g) ==
    << <<test, foo \o <<" ", "+", " ", "1">> >>,
       << <<"_">> \o foo, InterimValue(g, 1) >>,
       << <<"_">> \o bar, InterimValue(g, 2) >>,
       << <<"_">> \o baz, InterimValue(g, 3) >> >>

Orderings(n) == {p \in [1..n -> 1..n] : \A i, j \in 1..n : p[i] = p[j] => i = j}

\* the orders in which a set can yield its elements
SetOrders(S) ==
    {q \in [1..Cardinality(S) -> S] :
        \A i, j \in 1..Cardinality(S) : q[i] = q[j] => i = j}

Permuted(sq, p) == [i \in 1..Len(sq) |-> sq[p[i]]]

\* the names n depends on, directly or not
Reach(g, n) ==
    LET r1 == g[n]
        r2 == r1 \cup UNION {g[m] : m \in r1}
    IN  r2 \cup UNION {g[m] : m \in r2}

Acyclic(g) == \A n \in Interim : n \notin Reach(g, n)

\* the value of an interim name of an acyclic section, by its definition
RECURSIVE NameValue(_, _)
RECURSIVE SumValue(_, _, _)
SumValue(g, D, from) ==
    IF \A m \in D : m <= from THEN NameValue(g, from)
    ELSE IF from \notin D THEN SumValue(g, D, from + 1)
    ELSE add(NameValue(g, from), SumValue(g, D, from + 1))

NameValue(g, n) ==
    IF g[n] = {} THEN evaluate(Terminal(InterimLiterals[n], <<>>), <<>>)
    ELSE IF Cardinality(g[n]) = 1
    THEN mul(NameValue(g, CHOOSE m \in g[n] : TRUE), PyInt(2))
    ELSE SumValue(g, g[n], 1)

Init ==
    /\ custom_terminals = <<>>
    /\ reserved_terminals = <<>>
    /\ pc = "idle"
    /\ src = None
    /\ expr = None
    /\ result = PyNone
    /\ conf = <<>>
    /\ outputs = <<>>
    /\ util_functions = <<>>
    /\ to_evaluate = <<>>
    /\ rounds = 0
    /\ round_bound = 0
    /\ log = <<>>
    /\ ncalls = 0

\* process_args(conf) on a section of the family, its entries in any order;
\* the set tmp_functions yields its names in any order
CallSection ==
    /\ pc = "idle"
    /\ \E g \in Graphs, p \in Orderings(4) :
          \E order \in SetOrders(tmp_functions(Section(g))) :
              /\ src' = [graph |-> g, has_factory |-> FALSE, clean |-> TRUE]
              /\ Call(Permuted(Section(g), p), FALSE, <<type_key>>, TRUE, order)

NextArgs == CallSection \/ ResolutionRound \/ Return

SpecArgs == Init /\ [][NextArgs]_vars

-----------------------------------------------------------------------------
(* Claims on process_args over the sections of the family                  *)

\* the section of test_dict_with_many_interim_values
ExampleGraph == <<{2, 3}, {}, {2}>>

Finished == pc \in {"returned", "raised"}

LoopDone == pc = "loop" /\ rounds = round_bound

\* C1: for a section whose interim definitions are acyclic, process_args
\* returns, whatever the order of the entries, the one dictionary
\* {test: foo + 1} with foo valued by its definition
OrderIndependentOutput ==
    (Finished /\ Acyclic(src.graph)) =>
        /\ pc = "returned"
        /\ result = Dict(test :> add(NameValue(src.graph, 1), PyInt(1)))

\* the example's entries in another order than written give test = 52.0
ExampleReordered ==
    /\ pc = "returned"
    /\ src.graph = ExampleGraph
    /\ conf # Section(ExampleGraph)
    /\ conf[1][1] = <<"_">> \o foo
    /\ result = Dict(test :> Num(52, 1, TRUE))

\* C2: the dictionary process_args returns has no key that comes from an
\* entry whose key starts with '_'
NoInterimKeyReturned ==
    pc = "returned" =>
        \A n \in Interim : InterimNames[n] \notin DOMAIN result.d

\* C3: when the interim definitions are acyclic and the rounds of the
\* resolution loop are over, every interim name is in the Registry with a
\* value and no entry of an interim name is still pending
RoundsSuffice ==
    (LoopDone /\ Acyclic(src.graph)) =>
        /\ \A n \in Interim :
              /\ HasName(custom_terminals, InterimNames[n])
              /\ Lookup(custom_terminals, InterimNames[n]) # PyNone
        /\ \A i \in 1..Len(to_evaluate) :
              ~InSeq(to_evaluate[i].keys[1], InterimNames)

\* the example with foo first and bar last needs three rounds to resolve
ExampleResolvedLate ==
    /\ LoopDone
    /\ src.graph = ExampleGraph
    /\ conf[1][1] = <<"_">> \o foo
    /\ conf[4][1] = <<"_">> \o bar
    /\ Len(log) = 3
    /\ Lookup(custom_terminals, foo) = Num(51, 1, TRUE)

\* C4: the resolution loop performs at most (entries pending when it
\* starts + 1) rounds and the bound stays as it is while the loop runs, so
\* process_args ends on cyclic sections too
BoundedRounds ==
    /\ [](pc = "loop" => rounds <= round_bound)
    /\ [][pc = "idle" /\ pc' = "loop" =>
            rounds' = 0 /\ round_bound' = Len(to_evaluate') + 1]_vars
    /\ [][pc = "loop" =>
            /\ round_bound' = round_bound
            /\ pc' = "loop" => rounds' = rounds + 1 /\ rounds' <= round_bound
            /\ pc' = "returned" => rounds = round_bound]_vars

\* a cyclic section returns after all its rounds with entries still pending
CyclicReturned ==
    /\ pc = "returned"
    /\ ~Acyclic(src.graph)
    /\ rounds = round_bound
    /\ round_bound > 1
    /\ to_evaluate # <<>>

-----------------------------------------------------------------------------
(* Calls of process_args one after another on the one Registry: a section  *)
(* defining foo and bar, or a section using them, with clean or without    *)

MaxCalls == 2

FooLiterals == { <<"2", ".", "0">>, <<"3">> }
BarLiteral == <<"1", ".", "0">>

Defining ==
    {Permuted(<< << <<"_">> \o foo, a >>, << <<"_">> \o bar, BarLiteral >> >>, p) :
        a \in FooLiterals, p \in Orderings(2)}

FooPlusBar == << <<test, foo \o <<" ", "+", " ">> \o bar>> >>
FooTwice == << <<test, foo \o <<" ", "*", " ", "2">> >> >>

Using == {FooPlusBar, FooTwice}

\* process_args(conf, clean=clean) once the call before it is over
CallAgain ==
    /\ pc \in {"idle", "returned", "raised"}
    /\ ncalls < MaxCalls
    /\ \E section \in Defining \cup Using, clean \in BOOLEAN :
          \E order \in SetOrders(tmp_functions(section)) :
              /\ src' = [has_factory |-> FALSE, clean |-> clean,
                         before |-> custom_terminals]
              /\ Call(section, FALSE, <<type_key>>, clean, order)

NextCalls == CallAgain \/ ResolutionRound \/ Return

SpecCalls == Init /\ [][NextCalls]_vars

\* the call has just run lines 574-612
Entered == pc \in {"loop", "raised"} /\ rounds = 0

\* the call before this one left foo and bar in the Registry with values
Resolved(ct) ==
    \A name \in {foo, bar} : HasName(ct, name) /\ Lookup(ct, name) # PyNone

\* C5: process_args empties the Registry first iff clean is true: with clean
\* no name of an earlier call is left, and foo + bar is read as the strings
\* foo and bar; without clean every earlier name keeps its place and value,
\* and foo + bar is the sum of the values the earlier call resolved
CleanEmptiesRegistry ==
    /\ Entered =>
          IF src.clean
          THEN \A i \in 1..Len(custom_terminals) :
                  custom_terminals[i][1] \in tmp_functions(conf)
          ELSE /\ Len(custom_terminals) >= Len(src.before)
               /\ \A i \in 1..Len(src.before) : custom_terminals[i] = src.before[i]
    /\ (Finished /\ conf = FooPlusBar /\ Resolved(src.before)) =>
          /\ pc = "returned"
          /\ result = Dict(test :>
                IF src.clean THEN PyStr(foo \o bar)
                ELSE add(Lookup(src.before, foo), Lookup(src.before, bar)))

\* test_clean_arg_true: the second call, with clean, returns 'foobar'
SecondCallClean ==
    /\ pc = "returned"
    /\ ncalls = 2
    /\ conf = FooPlusBar
    /\ src.clean
    /\ Resolved(src.before)
    /\ Lookup(src.before, foo) = Num(2, 1, TRUE)
    /\ Lookup(src.before, bar) = Num(1, 1, TRUE)
    /\ custom_terminals = <<>>
    /\ result = Dict(test :> PyStr(foo \o bar))

-----------------------------------------------------------------------------
(* The Registry used directly: names are subscribed, updated and cleared,  *)
(* expressions are parsed and asked whether they are ready                 *)

MaxValue == 1

NameB == <<"b">>
NameBe == <<"b", "e">>

RegistryNames == {NameB, NameBe}
RegistryValues == {PyNone} \cup {PyInt(v) : v \in 1..MaxValue}

BePlusOne == <<"b", "e", " ", "+", " ", "1">>
BTwice == <<"b", " ", "*", " ", "2">>
Grouped == <<"(", "b", "+", "1", ")", "*", "b", "e">>
AbsB == <<"a", "b", "s", "(", "b", ")">>
BInList == <<"b", ",", " ", "2">>
OnePlusTwo == <<"1", " ", "+", " ", "2">>

\* the sources, each with the names it is written with
Sources ==
    {[s |-> BePlusOne, names |-> {NameBe}], [s |-> BTwice, names |-> {NameB}],
     [s |-> Grouped, names |-> {NameB, NameBe}], [s |-> AbsB, names |-> {NameB}],
     [s |-> BInList, names |-> {NameB}], [s |-> OnePlusTwo, names |-> {}]}

\* Node.subscribe_terminal(name, value)
Subscribe ==
    /\ pc = "idle"
    /\ \E name \in RegistryNames, value \in RegistryValues :
          \E r \in {subscribe_terminal(custom_terminals, name, value)} :
              /\ custom_terminals' = r.ct
              /\ result' = r.exc
              /\ log' = <<[call |-> "subscribe_terminal", name |-> name,
                           value |-> value]>>
    /\ UNCHANGED <<reserved_terminals, pc, src, expr, conf, outputs,
                   util_functions, to_evaluate, rounds, round_bound, ncalls>>

\* Node.update_terminal(name, value)
Update ==
    /\ pc = "idle"
    /\ \E name \in RegistryNames, value \in RegistryValues :
          \E r \in {update_terminal(custom_terminals, name, value)} :
              /\ custom_terminals' = r.ct
              /\ result' = r.exc
              /\ log' = <<[call |-> "update_terminal", name |-> name,
                           value |-> value]>>
    /\ UNCHANGED <<reserved_terminals, pc, src, expr, conf, outputs,
                   util_functions, to_evaluate, rounds, round_bound, ncalls>>

\* Node.clear_terminals()
Clear ==
    /\ pc = "idle"
    /\ custom_terminals' = clear_terminals(custom_terminals)
    /\ result' = PyNone
    /\ log' = <<[call |-> "clear_terminals"]>>
    /\ UNCHANGED <<reserved_terminals, pc, src, expr, conf, outputs,
                   util_functions, to_evaluate, rounds, round_bound, ncalls>>

\* Expression(s): the tree is kept, with the names the Registry had
Parse ==
    /\ pc = "idle"
    /\ \E s \in Sources :
          \E t \in {Expression(s.s, Names(custom_terminals), reserved_terminals)} :
              /\ src' = [s |-> s.s, names |-> s.names,
                         known |-> {n \in RegistryNames : HasName(custom_terminals, n)}]
              /\ expr' = IF t.k = "X" THEN None ELSE t
              /\ result' = IF t.k = "X" THEN AsRaise(t) ELSE PyNone
              /\ reserved_terminals' =
                    IF t.k = "X" THEN t.rt ELSE AfterTerminal(reserved_terminals)
    /\ log' = <<[call |-> "Expression"]>>
    /\ UNCHANGED <<custom_terminals, pc, conf, outputs, util_functions,
                   to_evaluate, rounds, round_bound, ncalls>>

\* ready() of the tree that was parsed last
Ready ==
    /\ pc = "idle"
    /\ expr # None
    /\ result' = ready(expr, custom_terminals)
    /\ log' = <<[call |-> "ready"]>>
    /\ UNCHANGED <<custom_terminals, reserved_terminals, pc, src, expr, conf,
                   outputs, util_functions, to_evaluate, rounds, round_bound,
                   ncalls>>

NextRegistry == Subscribe \/ Update \/ Clear \/ Parse \/ Ready

SpecRegistry == Init /\ [][NextRegistry]_vars

\* the call that was made last
Last(call) == log # <<>> /\ log[1].call = call

\* every entry of the Registry but that of name is as it was
OthersKept(name, before, after) ==
    \A n \in RegistryNames \ {name} :
        /\ HasName(after, n) <=> HasName(before, n)
        /\ HasName(before, n) => Lookup(after, n) = Lookup(before, n)

\* C6: subscribe_terminal(name, value) adds an absent name with the value
\* given (None when none is given); for a name that is present it raises
\* and leaves every entry as it was
SubscribeAddsOrFails ==
    [][(log' # <<>> /\ log'[1].call = "subscribe_terminal") =>
          IF HasName(custom_terminals, log'[1].name)
          THEN /\ IsRaise(result')
               /\ custom_terminals' = custom_terminals
          ELSE /\ result' = PyNone
               /\ HasName(custom_terminals', log'[1].name)
               /\ Lookup(custom_terminals', log'[1].name) = log'[1].value
               /\ OthersKept(log'[1].name, custom_terminals, custom_terminals')]_vars

\* a second subscription of be was refused and be kept its value
SubscribedTwice ==
    /\ Last("subscribe_terminal")
    /\ log[1].name = NameBe
    /\ log[1].value = PyNone
    /\ IsRaise(result)
    /\ custom_terminals = << <<NameB, PyNone>>, <<NameBe, PyInt(1)>> >>

ReadyIffResolved ==
    (/\ Last("ready")
     /\ src.names \subseteq src.known
     /\ \A n \in src.names : HasName(custom_terminals, n)) =>
        result = PyBool(\A n \in src.names : Lookup(custom_terminals, n) # PyNone)

-----------------------------------------------------------------------------
(* Arithmetic strings without names: chains of binary operators, a group   *)
(* in brackets on either side of an operator, unary minus and scientific   *)
(* notation, written with or without spaces around the binary operators    *)

MaxOps == 3

Literals == {"2", "3"}
BinaryOps == {"+", "-", "*", "/", "^"}

\* a chain a1 o1 a2 ... with up to MaxOps operators: the operands are 2 and
\* 3 in turn, and an exponent is 2, so that every value stays small
Operands(o) ==
    [i \in 1..(Len(o) + 1) |->
        IF i % 2 = 0 /\ o[i - 1] # "^" THEN "3" ELSE "2"]

Chains ==
    {[kind |-> "chain", opds |-> Operands(o), ops |-> o, spaced |-> sp] :
        o \in UNION {[1..n -> BinaryOps] : n \in 0..MaxOps}, sp \in BOOLEAN}

Groups ==
    {[kind |-> k, opds |-> a, ops |-> o, spaced |-> sp] :
        k \in {"left", "right"}, a \in [1..3 -> Literals],
        o \in [1..2 -> {"+", "-", "*", "/"}], sp \in BOOLEAN}

Negations ==
    {[kind |-> k, opds |-> a, ops |-> o, spaced |-> sp] :
        k \in {"negated", "negated group"}, a \in [1..2 -> Literals],
        o \in [1..1 -> {"+", "-", "*", "/"}], sp \in BOOLEAN}

Scientific ==
    {[kind |-> "scientific", opds |-> a, ops |-> <<"e">>, spaced |-> FALSE] :
        a \in [1..2 -> Literals]}

Written == Chains \cup Groups \cup Negations \cup Scientific

Binary(o, spaced) == IF spaced THEN <<" ", o, " ">> ELSE <<o>>

RECURSIVE RenderChain(_, _, _)
RenderChain(opds, ops, spaced) ==
    IF ops = <<>> THEN <<opds[1]>>
    ELSE <<opds[1]>> \o Binary(ops[1], spaced)
         \o RenderChain(Tail(opds), Tail(ops), spaced)

\* the string of an input
Render(in) ==
    LET a == in.opds
        o == in.ops
        sp == in.spaced
    IN  CASE in.kind = "chain" -> RenderChain(a, o, sp)
          [] in.kind = "left" ->
                <<"(", a[1]>> \o Binary(o[1], sp) \o <<a[2], ")">>
                \o Binary(o[2], sp) \o <<a[3]>>
          [] in.kind = "right" ->
                <<a[1]>> \o Binary(o[1], sp) \o <<"(", a[2]>>
                \o Binary(o[2], sp) \o <<a[3], ")">>
          [] in.kind = "negated" -> <<"-", a[1]>> \o Binary(o[1], sp) \o <<a[2]>>
          [] in.kind = "negated group" ->
                <<"-", "(", a[1]>> \o Binary(o[1], sp) \o <<a[2], ")">>
          [] in.kind = "scientific" -> <<a[1], "e", a[2]>>

Priority(o) ==
    CASE o \in {"+", "-"} -> 0 [] o \in {"*", "/"} -> 1 [] o = "^" -> 2

\* where a chain splits: at the last of its operators of the lowest priority
SplitAt(ops) ==
    LET low == CHOOSE q \in {Priority(ops[i]) : i \in 1..Len(ops)} :
                   \A i \in 1..Len(ops) : q <= Priority(ops[i])
    IN  CHOOSE i \in 1..Len(ops) :
            /\ Priority(ops[i]) = low
            /\ \A j \in (i + 1)..Len(ops) : Priority(ops[j]) > low

\* the grouping of a chain, written with all its brackets
RECURSIVE Grouped_str(_, _)
Grouped_str(opds, ops) ==
    IF ops = <<>> THEN <<opds[1]>>
    ELSE LET i == SplitAt(ops)
         IN  <<"(">> \o Grouped_str(SubSeq(opds, 1, i), SubSeq(ops, 1, i - 1))
             \o <<ops[i]>>
             \o Grouped_str(SubSeq(opds, i + 1, Len(opds)),
                            SubSeq(ops, i + 1, Len(ops)))
             \o <<")">>

Arith(o, x, y) ==
    IF IsRaise(x) THEN x
    ELSE IF IsRaise(y) THEN y
    ELSE CASE o = "+" -> add(x, y)
           [] o = "-" -> sub(x, y)
           [] o = "*" -> mul(x, y)
           [] o = "/" -> truediv(x, y)
           [] o = "^" -> pow(x, y)

Literal(c) == PyInt(DigitValue(c))

Minus(x) == sub(PyInt(0), x)

\* the value of a chain under that grouping
RECURSIVE Grouped_value(_, _)
Grouped_value(opds, ops) ==
    IF ops = <<>> THEN Literal(opds[1])
    ELSE LET i == SplitAt(ops)
         IN  Arith(ops[i],
                   Grouped_value(SubSeq(opds, 1, i), SubSeq(ops, 1, i - 1)),
                   Grouped_value(SubSeq(opds, i + 1, Len(opds)),
                                 SubSeq(ops, i + 1, Len(ops))))

\* the value an input stands for
Expected(in) ==
    LET a == [i \in DOMAIN in.opds |-> Literal(in.opds[i])]
        o == in.ops
    IN  CASE in.kind = "chain" -> Grouped_value(in.opds, o)
          [] in.kind = "left" -> Arith(o[2], Arith(o[1], a[1], a[2]), a[3])
          [] in.kind = "right" -> Arith(o[1], a[1], Arith(o[2], a[2], a[3]))
          [] in.kind = "negated" -> Arith(o[1], Minus(a[1]), a[2])
          [] in.kind = "negated group" -> Minus(Arith(o[1], a[1], a[2]))
          [] in.kind = "scientific" -> mul(a[1], pow(PyInt(10), a[2]))

\* the inputs: a division by zero stands for no value
ExprInputs == {in \in Written : ~IsRaise(Expected(in))}

InitExpr ==
    /\ custom_terminals = <<>>
    /\ reserved_terminals = <<>>
    /\ pc = "idle"
    /\ src \in ExprInputs
    /\ expr = None
    /\ result = PyNone
    /\ conf = <<>>
    /\ outputs = <<>>
    /\ util_functions = <<>>
    /\ to_evaluate = <<>>
    /\ rounds = 0
    /\ round_bound = 0
    /\ log = <<>>
    /\ ncalls = 0

\* Expression(s) on the string of the input
ParseSource ==
    /\ pc = "idle"
    /\ \E t \in {Expression(Render(src), Names(custom_terminals),
                            reserved_terminals)} :
          /\ expr' = IF t.k = "X" THEN None ELSE t
          /\ result' = IF t.k = "X" THEN AsRaise(t) ELSE PyNone
          /\ pc' = IF t.k = "X" THEN "raised" ELSE "parsed"
          /\ reserved_terminals' =
                IF t.k = "X" THEN t.rt ELSE AfterTerminal(reserved_terminals)
    /\ UNCHANGED <<custom_terminals, src, conf, outputs, util_functions,
                   to_evaluate, rounds, round_bound, log, ncalls>>

\* evaluate() on the tree
EvaluateTree ==
    /\ pc = "parsed"
    /\ \E v \in {evaluate(expr, custom_terminals)} :
          /\ result' = v
          /\ pc' = IF IsRaise(v) THEN "raised" ELSE "evaluated"
    /\ UNCHANGED <<custom_terminals, reserved_terminals, src, expr, conf,
                   outputs, util_functions, to_evaluate, rounds, round_bound,
                   log, ncalls>>

NextExpr == ParseSource \/ EvaluateTree

SpecExpr == InitExpr /\ [][NextExpr]_vars

\* C9: a well-formed arithmetic string without names, with or without
\* spaces, parses and evaluates to the value it stands for
ValueAsExpected ==
    pc \in {"evaluated", "raised"} =>
        pc = "evaluated" /\ result = Expected(src)

\* C10: an unparenthesised chain of binary operators parses into the tree
\* that groups operators of equal priority from the left and nests an
\* operator of higher priority below its neighbour of lower priority
ChainGrouping ==
    (src.kind = "chain" /\ pc # "idle") =>
        pc # "raised" /\ (expr # None => str(expr) = Grouped_str(src.opds, src.ops))

\* 2 + 3 / 2 + 3 is parsed into ((2+(3/2))+3)
MixedChainParsed ==
    /\ pc = "parsed"
    /\ src.kind = "chain"
    /\ src.spaced
    /\ src.ops = <<"+", "/", "+">>
    /\ str(expr) = <<"(", "(", "2", "+", "(", "3", "/", "2", ")", ")", "+", "3", ")">>

-----------------------------------------------------------------------------
(* Texts parsed in a process that has built no Terminal yet: a text is     *)
(* parsed and evaluated, then parsed again, from the text itself or from   *)
(* the canonical string of the tree it gave                                *)

MaxParses == 2

TextAtoms ==
    {<<"2">>, <<"3">>, <<"0", ".", "1">>, NameB, foo, <<"t", "r", "u", "e">>, <<"x">>}

Negated(a) == <<"-">> \o a
Bracketed(a) == <<"(">> \o a \o <<")">>
AbsOf(a) == <<"a", "b", "s">> \o Bracketed(a)

\* an atom, alone or under a minus sign, brackets or a function call
UnaryTexts(A) ==
    A \cup {Negated(a) : a \in A} \cup {Bracketed(a) : a \in A}
      \cup {AbsOf(a) : a \in A} \cup {AbsOf(Negated(a)) : a \in A}

BinaryTexts ==
    {l \o <<o>> \o r : l \in UnaryTexts({<<"2">>, NameB}), o \in {"+", "*", "^"},
                       r \in UnaryTexts({<<"3">>, NameB})}

\* the list of TestList.test_create_list
ExampleList == <<"0", ".", "1", ",", " ", "3", ",", " ", "f", "o", "o">>

ListTexts ==
    {ExampleList} \cup {a \o <<",", " ">> \o c : a, c \in UnaryTexts({<<"2">>, NameB})}

\* an unterminated grouping, a stray closing bracket, an operator without
\* its right operand, a trailing comma, a character that is no operator
\* after a closing bracket
Malformed ==
    {<<"(", "2", "+", "3">>, <<"(", "(", "2", "+", "3", ")">>,
     <<"2", "+", "3", ")">>, <<")">>,
     <<"2", "+">>, <<"2", " ", "*">>, <<"2", ",">>,
     <<"(", "2", "+", "3", ")", "3">>, <<"(", "2", ")", "b">>}

Texts == UnaryTexts(TextAtoms) \cup BinaryTexts \cup ListTexts \cup Malformed

\* the Registry the texts are read with: empty, or b without or with a value
TextRegistries == {<<>>, << <<NameB, PyNone>> >>, << <<NameB, PyInt(2)>> >>}

InitText ==
    /\ custom_terminals \in TextRegistries
    /\ reserved_terminals = <<>>
    /\ pc = "idle"
    /\ src \in Texts
    /\ expr = None
    /\ result = PyNone
    /\ conf = <<>>
    /\ outputs = <<>>
    /\ util_functions = <<>>
    /\ to_evaluate = <<>>
    /\ rounds = 0
    /\ round_bound = 0
    /\ log = <<>>
    /\ ncalls = 0

\* Expression(text); the log keeps what the parse gave: the canonical
\* string of the tree, or the exception
ParseOf(of, text) ==
    \E t \in {Expression(text, Names(custom_terminals), reserved_terminals)} :
        /\ expr' = IF t.k = "X" THEN None ELSE t
        /\ reserved_terminals' =
              IF t.k = "X" THEN t.rt ELSE AfterTerminal(reserved_terminals)
        /\ pc' = IF t.k = "X" THEN "idle" ELSE "parsed"
        /\ log' = Append(log,
              [of |-> of, text |-> text, parsed |-> t.k # "X",
               evaluated |-> FALSE, fresh |-> reserved_terminals = <<>>,
               str |-> IF t.k = "X" THEN <<>> ELSE str(t),
               value |-> IF t.k = "X" THEN AsRaise(t) ELSE PyNone])

\* Expression(s) on the text
ParseText ==
    /\ pc = "idle"
    /\ Len(log) < MaxParses
    /\ ParseOf("source", src)
    /\ UNCHANGED <<custom_terminals, src, result, conf, outputs, util_functions,
                   to_evaluate, rounds, round_bound, ncalls>>

\* Expression(str(tree)) on the tree parsed last
ParseCanonical ==
    /\ pc = "idle"
    /\ log # <<>>
    /\ Len(log) < MaxParses
    /\ log[Len(log)].parsed
    /\ ParseOf("canonical", log[Len(log)].str)
    /\ UNCHANGED <<custom_terminals, src, result, conf, outputs, util_functions,
                   to_evaluate, rounds, round_bound, ncalls>>

\* evaluate() on the tree parsed last
EvaluateText ==
    /\ pc = "parsed"
    /\ \E v \in {evaluate(expr, custom_terminals)} :
          /\ result' = v
          /\ log' = [log EXCEPT ![Len(log)].value = v,
                                ![Len(log)].evaluated = TRUE]
    /\ pc' = "idle"
    /\ UNCHANGED <<custom_terminals, reserved_terminals, src, expr, conf,
                   outputs, util_functions, to_evaluate, rounds, round_bound,
                   ncalls>>

NextText == ParseText \/ ParseCanonical \/ EvaluateText

SpecText == InitText /\ [][NextText]_vars

\* the entry i of the log is complete: the parse failed or the tree was
\* evaluated
Settled(i) == i \in 1..Len(log) /\ (log[i].parsed => log[i].evaluated)

\* C11: the canonical string of a parsed expression that is no list, parsed
\* again, gives a tree with the same canonical string and the same value
CanonicalRoundTrip ==
    \A i \in 1..Len(log) :
        (/\ i > 1
         /\ Settled(i) /\ Settled(i - 1)
         /\ log[i].of = "canonical"
         /\ ~contains(log[i - 1].text, <<",">>)) =>
            /\ log[i].parsed
            /\ log[i].str = log[i - 1].str
            /\ log[i].value = log[i - 1].value

\* C12: two parses of the same text, the Registry unchanged between them,
\* give the same value, also when the first is the first parse of the
\* process
ParseTwiceSameValue ==
    \A i \in 1..Len(log) :
        (/\ i > 1
         /\ Settled(i) /\ Settled(i - 1)
         /\ log[i].text = log[i - 1].text) =>
            /\ log[i].parsed = log[i - 1].parsed
            /\ log[i].value = log[i - 1].value

\* each comma-separated segment of a text, parsed and evaluated on its own
SegmentValues(text, ct, rt) ==
    LET segments == split(text, ",")
    IN  [j \in 1..Len(segments) |->
            LET t == Expression(segments[j], Names(ct), rt)
            IN  IF t.k = "X" THEN AsRaise(t) ELSE evaluate(t, ct)]

\* C13: a comma-separated text evaluates to the sequence of the values of
\* its segments, one per segment and in their order, each the value of the
\* segment as an expression of its own
ListInOrder ==
    \A i \in 1..Len(log) :
        (Settled(i) /\ contains(log[i].text, <<",">>)) =>
            LET vals == SegmentValues(log[i].text, custom_terminals,
                                      reserved_terminals)
            IN  IF \E j \in 1..Len(vals) : IsRaise(vals[j])
                THEN IsRaise(log[i].value)
                ELSE log[i].value = PyList(vals)

\* '0.1, 3, foo' gave [0.1, 3, 'foo']
ExampleListEvaluated ==
    /\ log # <<>>
    /\ log[1].text = ExampleList
    /\ log[1].evaluated
    /\ log[1].value = PyList(<<Num(1, 10, TRUE), PyInt(3), PyStr(foo)>>)

-----------------------------------------------------------------------------
(* A Terminal built from a text and evaluated without a mesh or with a     *)
(* mesh of one, two or three dimensions                                    *)

MaxDim == 3

TerminalTexts ==
    {<<"2">>, <<" ", "2", " ">>, <<"-", "3">>, <<"1", ".", "5">>,
     <<"t", "r", "u", "e">>, <<"T", "R", "U", "E">>, <<"F", "a", "l", "s", "e">>,
     <<"x">>, <<"y">>, <<"z">>, <<"x", "[", "0", "]">>, <<"x", "[", "1", "]">>,
     <<"x", "[", "2", "]">>, foo, <<"'", "f", "o", "o", "'">>,
     <<"\"", "b", "a", "r", "\"">>, <<"2", "x">>}

\* a Registry that holds a name for each reading of a text: an integer, a
\* float, a boolean, a coordinate and a plain string
Shadowing ==
    << <<<<"2">>, PyInt(5)>>, <<<<"1", ".", "5">>, PyNone>>,
       <<<<"t", "r", "u", "e">>, PyInt(0)>>, <<<<"x">>, PyInt(7)>>,
       <<foo, PyInt(3)>> >>

TerminalRegistries == {<<>>, Shadowing}

InitTerminal ==
    /\ custom_terminals \in TerminalRegistries
    /\ reserved_terminals = <<>>
    /\ pc = "idle"
    /\ src \in TerminalTexts
    /\ expr = None
    /\ result = PyNone
    /\ conf = <<>>
    /\ outputs = <<>>
    /\ util_functions = <<>>
    /\ to_evaluate = <<>>
    /\ rounds = 0
    /\ round_bound = 0
    /\ log = <<>>
    /\ ncalls = 0

\* Terminal(s)
BuildTerminal ==
    /\ pc = "idle"
    /\ expr' = Terminal(src, Names(custom_terminals))
    /\ reserved_terminals' = AfterTerminal(reserved_terminals)
    /\ pc' = "built"
    /\ UNCHANGED <<custom_terminals, src, result, conf, outputs, util_functions,
                   to_evaluate, rounds, round_bound, log, ncalls>>

\* evaluate(mesh, V) on the Terminal
EvaluateTerminal ==
    /\ pc = "built"
    /\ \E dim \in 0..MaxDim :
          /\ result' = Terminal_evaluate_mesh(expr, custom_terminals, dim)
          /\ log' = <<[call |-> "evaluate", dim |-> dim]>>
    /\ pc' = "evaluated"
    /\ UNCHANGED <<custom_terminals, reserved_terminals, src, expr, conf,
                   outputs, util_functions, to_evaluate, rounds, round_bound,
                   ncalls>>

NextTerminal == BuildTerminal \/ EvaluateTerminal

SpecTerminal == InitTerminal /\ [][NextTerminal]_vars

\* the coordinate names a mesh of the given dimension has
CoordinateNames(dim) ==
    {<<"x">>, <<"x", "[", "0", "]">>}
    \cup (IF dim > 1 THEN {<<"y">>, <<"x", "[", "1", "]">>} ELSE {})
    \cup (IF dim > 2 THEN {<<"z">>, <<"x", "[", "2", "]">>} ELSE {})

\* C14: Terminal.evaluate reads its trimmed text in a fixed order: a name of
\* the Registry gives the value of the Registry; otherwise true or false in
\* any case gives a boolean; otherwise an integer literal, then a float
\* literal, gives the number; otherwise, with a mesh, a coordinate name of
\* the mesh gives the coordinate; otherwise the text is returned as a string
ResolutionOrder ==
    pc = "evaluated" =>
        LET s == strip(src)
        IN  IF HasName(custom_terminals, s) THEN result = Lookup(custom_terminals, s)
            ELSE IF lower(s) \in {<<"t", "r", "u", "e">>, <<"f", "a", "l", "s", "e">>}
            THEN result = PyBool(lower(s) = <<"t", "r", "u", "e">>)
            ELSE IF IsIntLiteral(s)
            THEN result.t = "num" /\ ~result.float /\ result = IntLiteral(s)
            ELSE IF IsFloatLiteral(s)
            THEN result.t = "num" /\ result.float /\ result = FloatLiteral(s)
            ELSE IF log[1].dim > 0 /\ s \in CoordinateNames(log[1].dim)
            THEN result.t = "ufl"
            ELSE result = PyStr(strip_char(strip_char(s, "\""), "'"))

\* ' 2 ' is the integer 2 in an empty Registry, and the value registered
\* for 2 in a Registry that has the name
RegisteredBeforeLiteral ==
    /\ pc = "evaluated"
    /\ src = <<" ", "2", " ">>
    /\ custom_terminals = Shadowing
    /\ result = PyInt(5)

-----------------------------------------------------------------------------
(* process_args with str_keys: sections of up to MaxEntries entries, among *)
(* them the two of test_str_keys_arg, an interim name, a nested type      *)
(* written with capitals and a value that does not parse                   *)

MaxEntries == 3

test2 == test \o <<"2">>
bad == <<"b", "a", "d">>

KeyEntries ==
    {<<test, foo \o <<" ", "+", " ", "1">> >>,
     <<test2, <<"2", ".", "0">> >>,
     << <<"_">> \o foo, <<"3">> >>,
     << <<"A", ".", "T", "y", "p", "e">>, <<"g", "a", "u", "s", "s">> >>,
     <<bad, <<"(", "1", " ", "+">> >>}

KeySections ==
    {s \in UNION {[1..n -> KeyEntries] : n \in 1..MaxEntries} :
        \A i, j \in 1..Len(s) : s[i] = s[j] => i = j}

StrKeyLists ==
    {<<>>, <<type_key>>, <<test>>, <<test, type_key>>, <<bad, test2>>,
     <<test, test2, foo, type_key, bad>>}

\* process_args(conf, str_keys=str_keys)
CallWithKeys ==
    /\ pc = "idle"
    /\ \E section \in KeySections, str_keys \in StrKeyLists :
          \E order \in SetOrders(tmp_functions(section)) :
              /\ src' = [has_factory |-> FALSE, clean |-> TRUE, str_keys |-> str_keys]
              /\ Call(section, FALSE, str_keys, TRUE, order)

NextKeys == CallWithKeys \/ ResolutionRound \/ Return

SpecKeys == Init /\ [][NextKeys]_vars

\* the entry i of conf: whether it is interim, and its keys
IsInterim(i) == startswith(conf[i][1], <<"_">>)
KeysOf(i) ==
    split(lower(IF IsInterim(i) THEN Tail(conf[i][1]) ELSE conf[i][1]), ".")
IsStrKey(i) == InSeq(KeysOf(i)[Len(KeysOf(i))], src.str_keys)

\* C15: an entry whose last key is in str_keys is stored as the string it
\* was given, without being parsed or evaluated: a value that does not
\* parse raises nothing, and a section of such entries only builds no
\* Terminal; an entry whose last key is not in str_keys is parsed
StrKeysVerbatim ==
    (pc \in {"loop", "returned", "raised"} /\ conf # <<>>) =>
        /\ \A i \in 1..Len(conf) :
              (IsStrKey(i) /\ pc # "raised") =>
                  IF IsInterim(i)
                  THEN rounds = 0 =>
                          top_get_path(util_functions, KeysOf(i)) = PyStr(conf[i][2])
                  ELSE top_get_path(outputs, KeysOf(i)) = PyStr(conf[i][2])
        /\ (\A i \in 1..Len(conf) : IsStrKey(i)) =>
              /\ pc # "raised"
              /\ reserved_terminals = <<>>
              /\ to_evaluate = <<>>
        /\ ((\E i \in 1..Len(conf) : ~IsStrKey(i)) /\ pc # "raised") =>
              reserved_terminals # <<>>

\* test_str_keys_arg: test keeps 'foo + 1' and test2 is the float 2.0
TestKeptAsString ==
    /\ pc = "returned"
    /\ src.str_keys = <<test>>
    /\ conf = << <<test, foo \o <<" ", "+", " ", "1">> >>,
                 <<test2, <<"2", ".", "0">> >> >>
    /\ result = Dict((test :> PyStr(foo \o <<" ", "+", " ", "1">>))
                     @@ (test2 :> Num(2, 1, TRUE)))

\* the Expression nodes of a tree
RECURSIVE Subtrees(_)
Subtrees(n) ==
    IF n.k = "E" THEN {n} \cup Subtrees(n.left) \cup Subtrees(n.right)
    ELSE IF n.k = "L" THEN UNION {Subtrees(n.children[i]) : i \in 1..Len(n.children)}
    ELSE {}

\* the operands of m have values and its operator raises TypeError on them
TypeFails(m, ct) ==
    LET l == evaluate(m.left, ct)
        r == evaluate(m.right, ct)
    IN  ~IsRaise(l) /\ ~IsRaise(r) /\ apply(m.op, l, r) = TypeError

\* C16: when the operator of a node raises a type error on the values of
\* its operands, evaluate of the whole tree returns no value: it raises an
\* error whose message contains the canonical string of such a node
TypeErrorNamesNode ==
    (pc = "idle" /\ log # <<>> /\ log[Len(log)].evaluated
       /\ \E m \in Subtrees(expr) : TypeFails(m, custom_terminals)) =>
        /\ IsRaise(result)
        /\ result.exc = "RuntimeError"
        /\ \E m \in Subtrees(expr) :
              TypeFails(m, custom_terminals) /\ contains(result.msg, str(m))

\* abs(b)+3 with b unresolved: abs fails on None and the sum has no value
PlaceholderRejected ==
    /\ pc = "idle"
    /\ custom_terminals = << <<NameB, PyNone>> >>
    /\ src = AbsOf(NameB) \o <<"+", "3">>
    /\ log # <<>>
    /\ log[Len(log)].evaluated
    /\ result = Raise("RuntimeError", <<"a", "b", "s", "b">>)

\* C17: a malformed text is rejected when it is parsed, with one of the
\* parser's own errors (lines 224 and 285) carrying the text at fault; it
\* gives no tree and no other exception
MalformedRejected ==
    \A i \in 1..Len(log) :
        log[i].text \in Malformed =>
            /\ ~log[i].parsed
            /\ log[i].value.exc \in {"ValueError", "RuntimeError"}
            /\ log[i].value.msg # <<>>

-----------------------------------------------------------------------------
(* The end of the resolution loop, over the sections with three interim    *)
(* names                                                                   *)

\* C18: process_args does not return when an entry is still unready at the
\* end of the resolution loop: every entry left in to_evaluate at a normal
\* return was ready
ExhaustionRaises ==
    pc = "returned" =>
        \A i \in 1..Len(to_evaluate) :
            ready(to_evaluate[i].expr, custom_terminals) = PyBool(TRUE)

-----------------------------------------------------------------------------
(* IterationMethod (core/iteration_method.py): the dispatch of update to   *)
(* the method named by a string                                            *)

BackwardEulerName == <<"B", "a", "c", "k", "w", "a", "r", "d", "E", "u", "l", "e", "r">>
ForwardEulerName == <<"F", "o", "r", "w", "a", "r", "d", "E", "u", "l", "e", "r">>
CrankNicolsonName == <<"C", "r", "a", "n", "k", "N", "i", "c", "o", "l", "s", "o", "n">>
ThetaName == <<"T", "h", "e", "t", "a">>
UpdateName == <<"u", "p", "d", "a", "t", "e">>
FakeMethodName == <<"F", "a", "k", "e", "M", "e", "t", "h", "o", "d">>
HiddenMethodName == <<"_">> \o FakeMethodName
InitName == <<"_", "_", "i", "n", "i", "t", "_", "_">>
theta == <<"t", "h", "e", "t", "a">>

\* IterationMethod(problem): T and T_ are taken from the problem; set holds
\* the names of the callables a caller has set on the instance
IterationMethod(problem) == [T |-> problem.T, T_ |-> problem.T_, set |-> {}]

\* the problem of the tests, and one whose T and T_ are functions of the
\* external framework
MockProblem == [T |-> PyNone, T_ |-> PyNone]
TimeProblem == [T |-> [t |-> "ufl", f |-> <<"T">>, arg |-> PyNone],
                T_ |-> [t |-> "ufl", f |-> <<"T", "_">>, arg |-> PyNone]]

\* the methods the class defines, and the names of the data attributes
MethodNames ==
    {UpdateName, BackwardEulerName, ForwardEulerName, CrankNicolsonName, ThetaName}
DataNames == {<<"T">>, <<"T", "_">>}

\* hasattr(self, name) for a name that does not start with an underscore
hasattr(self, name) == name \in MethodNames \cup DataNames \cup self.set

\* firedrake's replace(F, mapping): a value of the external framework
replace(F, by) == [t |-> "ufl", f |-> <<"r", "e", "p", "l", "a", "c", "e">>,
                   arg |-> F, by |-> by]

\* a callable set on the instance, as the tests set stash_args: it takes
\* any arguments and its result tells which it was given
stash_args(F, kwargs) == [t |-> "stashed", args |-> <<F>>, kwargs |-> kwargs]

\* theta*self.T + (1-theta)*self.T_ for numbers or values of the framework;
\* None takes no part in arithmetic
weighted(th, T, T_) ==
    IF T = PyNone \/ T_ = PyNone \/ ~IsNumber(th) THEN TypeError
    ELSE [t |-> "ufl", f |-> <<"w", "e", "i", "g", "h", "t", "e", "d">>,
          arg |-> <<th, T, T_>>]

\* lines 48-59
BackwardEuler(self, F) == F

\* lines 61-71: the argument of replace is the set {T, T_}
ForwardEuler(self, F) == replace(F, {self.T, self.T_})

\* lines 73-84
CrankNicolson(self, F) ==
    LET T == weighted(Num(1, 2, TRUE), self.T, self.T_)
    IN  IF IsRaise(T) THEN T ELSE replace(F, {self.T, T})

\* lines 86-102
Theta(self, F, th) ==
    LET T == weighted(th, self.T, self.T_)
    IN  IF IsRaise(T) THEN T ELSE replace(F, <<self.T, T>>)

\* self.T(F) or self.T_(F): None is not callable; a function of the
\* external framework is, and what it gives is the framework's
call_data(value, F, kwargs) ==
    IF value.t # "ufl" \/ kwargs # <<>> THEN TypeError
    ELSE [t |-> "ufl", f |-> <<"a", "t">>, arg |-> <<value, F>>]

\* getattr(self, method)(F, **kwargs) for a method other than update, for
\* an attribute that exists: a call that does not fit the signature raises
\* TypeError
call_attribute(self, method, F, kwargs) ==
    IF method \in self.set THEN stash_args(F, kwargs)
    ELSE IF method \in DataNames
    THEN call_data(IF method = <<"T">> THEN self.T ELSE self.T_, F, kwargs)
    ELSE IF method = ThetaName
    THEN IF Len(kwargs) = 1 /\ kwargs[1][1] = theta
         THEN Theta(self, F, kwargs[1][2]) ELSE TypeError
    ELSE IF kwargs # <<>> THEN TypeError
    ELSE IF method = BackwardEulerName THEN BackwardEuler(self, F)
    ELSE IF method = ForwardEulerName THEN ForwardEuler(self, F)
    ELSE CrankNicolson(self, F)

\* IterationMethod.update(F, method, **kwargs), lines 41-46: getattr raises
\* AttributeError for a name that does not exist, which except KeyError
\* does not catch; update called through itself takes the keyword
\* arguments for its own and dispatches to BackwardEuler, its default
update(self, F, method, kwargs) ==
    IF method = <<>> THEN Raise("IndexError", <<>>)
    ELSE IF method[1] = "_" THEN Raise("ValueError", <<>>)
    ELSE IF ~hasattr(self, method) THEN Raise("AttributeError", method)
    ELSE IF method = UpdateName
    THEN (IF kwargs # <<>> THEN TypeError ELSE BackwardEuler(self, F))
    ELSE call_attribute(self, method, F, kwargs)

Problems == {MockProblem, TimeProblem}
Requested ==
    MethodNames \cup DataNames
      \cup {FakeMethodName, HiddenMethodName, InitName, <<>>}
UpdatedValues == {PyStr(<<"F">>), PyNone}
KeywordArguments ==
    {<<>>, << <<theta, Num(1, 2, TRUE)>> >>, << <<foo, PyStr(bar)>> >>}

InitMethod ==
    /\ custom_terminals = <<>>
    /\ reserved_terminals = <<>>
    /\ pc = "idle"
    /\ src \in {IterationMethod(p) : p \in Problems}
    /\ expr = None
    /\ result = PyNone
    /\ conf = <<>>
    /\ outputs = <<>>
    /\ util_functions = <<>>
    /\ to_evaluate = <<>>
    /\ rounds = 0
    /\ round_bound = 0
    /\ log = <<>>
    /\ ncalls = 0

\* setattr(im, name, stash_args), as the tests do
SetAttribute ==
    /\ pc = "idle"
    /\ \E name \in {FakeMethodName, HiddenMethodName} \ src.set :
          /\ src' = [src EXCEPT !.set = @ \cup {name}]
          /\ log' = <<[call |-> "setattr", name |-> name]>>
    /\ result' = PyNone
    /\ UNCHANGED <<custom_terminals, reserved_terminals, pc, expr, conf, outputs,
                   util_functions, to_evaluate, rounds, round_bound, ncalls>>

\* im.update(F, method, **kwargs)
UpdateMethod ==
    /\ pc = "idle"
    /\ \E F \in UpdatedValues, method \in Requested, kwargs \in KeywordArguments :
          /\ result' = update(src, F, method, kwargs)
          /\ log' = <<[call |-> "update", F |-> F, method |-> method,
                       kwargs |-> kwargs]>>
    /\ UNCHANGED <<custom_terminals, reserved_terminals, pc, src, expr, conf,
                   outputs, util_functions, to_evaluate, rounds, round_bound,
                   ncalls>>

NextMethod == SetAttribute \/ UpdateMethod

SpecMethod == InitMethod /\ [][NextMethod]_vars

\* a callable attribute of the object whose name starts with no underscore
IsPublicMethod(self, method) ==
    /\ method # <<>>
    /\ method[1] # "_"
    /\ method \in MethodNames \cup self.set

\* C19: update(F, method) raises ValueError when method is no public method
\* of the object, whether the name starts with an underscore or does not
\* exist; for a public method it returns what the method returns for F and
\* the keyword arguments.  The names are those that have a first character.
UpdateDispatches ==
    (Last("update") /\ log[1].method # <<>>) =>
        IF IsPublicMethod(src, log[1].method)
        THEN result = IF log[1].method = UpdateName
                      THEN update(src, log[1].F, BackwardEulerName, log[1].kwargs)
                      ELSE call_attribute(src, log[1].method, log[1].F, log[1].kwargs)
        ELSE IsRaise(result) /\ result.exc = "ValueError"

-----------------------------------------------------------------------------
(* set_right seen from the parse of a chain a o b ...: self is the node    *)
(* of a and o, f the tree parsed from what follows o                       *)

ChainParsed == src.kind = "chain" /\ src.ops # <<>> /\ pc = "parsed"

ChainSelf ==
    ExpressionNode(Terminal(<<src.opds[1]>>, <<>>), Operator(<<src.ops[1]>>), None)

ChainRight ==
    Expression(RenderChain(Tail(src.opds), Tail(src.ops), src.spaced),
               Names(custom_terminals), reserved_terminals)

\* whether f goes directly under self: by the less-than test, or by the
\* greater-than test
Directly(less, self, f) ==
    IF less THEN self.op.prio < f.op.prio ELSE self.op.prio > f.op.prio

\* the tree the rule gives: f becomes the right child of self, or f is the
\* root, keeps its right child, and has as left child self with the former
\* left child of f attached under it by the same rule
RECURSIVE AttachedBy(_, _, _)
AttachedBy(less, self, f) ==
    IF f.k = "T" \/ Directly(less, self, f)
    THEN [self EXCEPT !.right = f]
    ELSE [f EXCEPT !.left = AttachedBy(less, self, f.left)]

-----------------------------------------------------------------------------
(* Lists with groups: texts with a comma inside brackets, at the top level *)
(* or both, every one with its brackets matched                            *)

ListAtoms == {<<"2">>, <<"3">>, NameB}

Pair(a, c) == a \o <<",", " ">> \o c

GroupedLists ==
    {Pair(a, c) : a, c \in ListAtoms}
      \cup {Bracketed(Pair(a, c)) : a, c \in ListAtoms}
      \cup {Pair(Bracketed(Pair(a, c)), <<"2">>) : a, c \in ListAtoms}
      \cup {Pair(a, Bracketed(Pair(<<"2">>, c))) : a, c \in ListAtoms}
      \cup {Pair(Bracketed(a \o <<"+">> \o c), <<"2">>) : a, c \in ListAtoms}
      \cup {Bracketed(Pair(a, c)) \o <<"+", "2">> : a, c \in ListAtoms}

InitList ==
    /\ custom_terminals \in TextRegistries
    /\ reserved_terminals = <<>>
    /\ pc = "idle"
    /\ src \in GroupedLists
    /\ expr = None
    /\ result = PyNone
    /\ conf = <<>>
    /\ outputs = <<>>
    /\ util_functions = <<>>
    /\ to_evaluate = <<>>
    /\ rounds = 0
    /\ round_bound = 0
    /\ log = <<>>
    /\ ncalls = 0

SpecList == InitList /\ [][NextText]_vars

\* the depth of brackets after s, starting from depth d; -1 once a closing
\* bracket had no opening one
RECURSIVE Depth(_, _)
Depth(s, d) ==
    IF d < 0 THEN -1
    ELSE IF s = <<>> THEN d
    ELSE Depth(Tail(s), d + (IF Head(s) = "(" THEN 1
                             ELSE IF Head(s) = ")" THEN -1 ELSE 0))

Balanced(s) == Depth(s, 0) = 0

\* lines 213-214 and 425: the texts List._init hands to Expression when
\* Expression._init is given s
segments_of(s) ==
    IF contains(strip(s), <<",">>) THEN split(strip(s), ",") ELSE <<>>

\* the commas of s outside every pair of brackets
TopLevelCommas(s) ==
    {j \in 1..Len(s) : s[j] = "," /\ Depth(SubSeq(s, 1, j), 0) = 0}

\* C21: a text with matched brackets is split at its top-level commas only:
\* every segment that the list parser hands to the expression parser has
\* matched brackets, and the list parsed has one child per top-level segment
SplitAtTopLevelOnly ==
    \A i \in 1..Len(log) :
        (log[i].of = "source" /\ Balanced(log[i].text)) =>
            /\ \A j \in 1..Len(segments_of(log[i].text)) :
                  Balanced(segments_of(log[i].text)[j])
            /\ (log[i].parsed /\ i = Len(log) /\ pc = "parsed"
                  /\ TopLevelCommas(log[i].text) # {}) =>
                  /\ expr.left.k = "L"
                  /\ Len(expr.left.children)
                        = Cardinality(TopLevelCommas(log[i].text)) + 1

-----------------------------------------------------------------------------
(* The updates of the Registry during one call, over the sections with     *)
(* three interim names                                                     *)

\* the calls of update_terminal for name that the call has made so far
Updates(name) ==
    {i \in 1..Len(log) : log[i].call = "update_terminal" /\ log[i].name = name}

\* C22: during one call of process_args every interim name is updated in
\* the Registry at most once, and exactly once by the time the call returns
\* when the definitions are acyclic; the Registry holds None for a name
\* until its update and the value of that update from then on, so that a
\* resolved name never becomes unresolved again and never changes its value
UpdatedOnce ==
    /\ [](pc # "idle" =>
            \A n \in Interim :
                /\ Cardinality(Updates(InterimNames[n])) <= 1
                /\ HasName(custom_terminals, InterimNames[n]) =>
                      Lookup(custom_terminals, InterimNames[n]) =
                          IF Updates(InterimNames[n]) = {} THEN PyNone
                          ELSE log[CHOOSE i \in Updates(InterimNames[n]) : TRUE].value)
    /\ []((pc = "returned" /\ Acyclic(src.graph)) =>
            \A n \in Interim : Cardinality(Updates(InterimNames[n])) = 1)
    /\ [][pc = "loop" =>
            \A i \in 1..Len(custom_terminals) :
                /\ i <= Len(custom_terminals')
                /\ custom_terminals'[i][1] = custom_terminals[i][1]
                /\ custom_terminals[i][2] # PyNone =>
                      custom_terminals'[i][2] = custom_terminals[i][2]]_vars

\* the example returned after bar, baz and foo were updated, once each and
\* in this order
ExampleUpdatedInTurn ==
    /\ pc = "returned"
    /\ src.graph = ExampleGraph
    /\ [i \in 1..Len(log) |-> log[i].name] = <<bar, baz, foo>>
    /\ \A i \in 1..Len(log) : log[i].call = "update_terminal"
    /\ Lookup(custom_terminals, foo) = Num(51, 1, TRUE)

-----------------------------------------------------------------------------
(* process_args with a factory: the interim name foo is a record of scale  *)
(* and mean, with a type (test_dict_with_interim_functions) or without;    *)
(* scale and mean are literals or refer to the interim scalar bar          *)

gaussian == <<"g", "a", "u", "s", "s", "i", "a", "n">>
scale == <<"s", "c", "a", "l", "e">>
mean == <<"m", "e", "a", "n">>

Sub(name, key) == <<"_">> \o name \o <<".">> \o key

ScaleTexts == {<<"1", "0">>, bar \o <<" ", "*", " ", "2">>}
MeanTexts == {<<"0", ".", "5">>, bar}

BuilderSections ==
    {(IF typed THEN << <<Sub(foo, type_key), gaussian>> >> ELSE <<>>)
        \o << <<test, foo>>,
              <<Sub(foo, scale), s>>,
              <<Sub(foo, mean), m>>,
              << <<"_">> \o bar, <<"3">> >> >> :
        typed \in BOOLEAN, s \in ScaleTexts, m \in MeanTexts}

\* process_args(conf, factory), the entries of conf in any order
CallWithFactory ==
    /\ pc = "idle"
    /\ \E section \in BuilderSections :
          \E p \in Orderings(Len(section)),
             order \in SetOrders(tmp_functions(section)) :
              /\ src' = [has_factory |-> TRUE, clean |-> TRUE]
              /\ Call(Permuted(section, p), TRUE, <<type_key>>, TRUE, order)

NextBuilder == CallWithFactory \/ ResolutionRound \/ Return

SpecBuilder == Init /\ [][NextBuilder]_vars

\* the calls of the builder for name that the call has made so far
BuilderCalls(name) ==
    {i \in 1..Len(log) : log[i].call = "create_function" /\ log[i].name = name}

\* conf gives name a type
Typed(name) == \E i \in 1..Len(conf) : conf[i][1] = Sub(name, type_key)

\* the entries of conf under name other than its type
SubEntries(name) ==
    {i \in 1..Len(conf) :
        /\ IsInterim(i)
        /\ Len(KeysOf(i)) = 2
        /\ KeysOf(i)[1] = name
        /\ KeysOf(i)[2] # type_key}

\* props holds, for each sub-entry of name, the value its text evaluates to
\* and nothing else
HoldsSubEntries(props, name) ==
    /\ props.t = "dict"
    /\ DOMAIN props.d = {KeysOf(i)[2] : i \in SubEntries(name)}
    /\ \A i \in SubEntries(name) :
          /\ props.d[KeysOf(i)[2]].t \notin {"expr", "exc"}
          /\ props.d[KeysOf(i)[2]] =
                evaluate(Expression(conf[i][2], Names(custom_terminals),
                                    reserved_terminals), custom_terminals)

\* C23: for an interim name whose record has a type the builder is called
\* once, before the name is published, with the type and with the evaluated
\* values of all the sub-entries of the name, the type not among them, and
\* what is published is the result of the builder; for an interim name
\* without a type the builder is not called and the scalar or the record of
\* evaluated values is published; every name is published by the time the
\* call returns
BuiltOnceWhenComplete ==
    pc \in {"loop", "returned"} =>
        \A name \in {foo, bar} :
            /\ Cardinality(Updates(name)) <= 1
            /\ pc = "returned" => Updates(name) # {}
            /\ (Updates(name) = {} \/ ~Typed(name)) => BuilderCalls(name) = {}
            /\ Updates(name) # {} =>
                  LET u == CHOOSE i \in Updates(name) : TRUE
                  IN  /\ Lookup(custom_terminals, name) = log[u].value
                      /\ IF Typed(name)
                         THEN /\ BuilderCalls(name) = {u - 1}
                              /\ log[u].value.t = "function"
                              /\ log[u].value.type = PyStr(gaussian)
                              /\ HoldsSubEntries(log[u].value.props, name)
                         ELSE IF name = bar THEN log[u].value = PyInt(3)
                         ELSE HoldsSubEntries(log[u].value, name)

\* the section of the test with scale = bar * 2 written before bar: foo is
\* built in the second round with scale 6 and mean 0.5
BuiltAfterBar ==
    /\ pc = "returned"
    /\ Typed(foo)
    /\ conf[1] = <<Sub(foo, scale), bar \o <<" ", "*", " ", "2">> >>
    /\ [i \in 1..Len(log) |-> log[i].name] = <<bar, foo, foo>>
    /\ Lookup(custom_terminals, foo) =
          create_function(PyStr(gaussian),
                          Dict((scale :> PyInt(6)) @@ (mean :> Num(1, 2, TRUE))))
    /\ result = Dict(test :> Lookup(custom_terminals, foo))

-----------------------------------------------------------------------------
(* A tree is parsed once and evaluated again and again while names are     *)
(* subscribed and updated in the Registry                                  *)

NameTexts == {NameB, NameBe, BTwice}

\* Expression(s): the tree is kept, with the Registry as it was
ParseName ==
    /\ pc = "idle"
    /\ expr = None
    /\ \E s \in NameTexts :
          \E t \in {Expression(s, Names(custom_terminals), reserved_terminals)} :
              /\ src' = [s |-> s, at |-> custom_terminals]
              /\ expr' = IF t.k = "X" THEN None ELSE t
              /\ result' = IF t.k = "X" THEN AsRaise(t) ELSE PyNone
              /\ reserved_terminals' =
                    IF t.k = "X" THEN t.rt ELSE AfterTerminal(reserved_terminals)
    /\ log' = <<[call |-> "Expression"]>>
    /\ UNCHANGED <<custom_terminals, pc, conf, outputs, util_functions,
                   to_evaluate, rounds, round_bound, ncalls>>

\* evaluate() of the tree that was parsed
EvaluateParsed ==
    /\ pc = "idle"
    /\ expr # None
    /\ result' = evaluate(expr, custom_terminals)
    /\ log' = <<[call |-> "evaluate"]>>
    /\ UNCHANGED <<custom_terminals, reserved_terminals, pc, src, expr, conf,
                   outputs, util_functions, to_evaluate, rounds, round_bound,
                   ncalls>>

NextLate == Subscribe \/ Update \/ ParseName \/ EvaluateParsed

SpecLate == Init /\ [][NextLate]_vars

\* what a Terminal of the text name stands for with the Registry ct
ValueNow(ct, name) == IF HasName(ct, name) THEN Lookup(ct, name) ELSE PyStr(name)

\* C24: a tree that is the Terminal of a name evaluates to the value the
\* Registry holds for the name when evaluate is called, whatever the
\* Registry held when the tree was parsed, and to the name itself while the
\* name is not registered; b * 2 evaluates to the double of that value
EvaluatesCurrentValue ==
    Last("evaluate") =>
        /\ (expr.op = op_left /\ expr.left.k = "T") =>
              result = ValueNow(custom_terminals, expr.left.string)
        /\ src.s = BTwice =>
              IF ValueNow(custom_terminals, NameB) = PyNone THEN IsRaise(result)
              ELSE result = mul(ValueNow(custom_terminals, NameB), PyInt(2))

\* b was parsed while it was subscribed without a value and evaluates to
\* the value that update_terminal gave it afterwards
UpdatedAfterParse ==
    /\ Last("evaluate")
    /\ src.s = NameB
    /\ HasName(src.at, NameB)
    /\ Lookup(src.at, NameB) = PyNone
    /\ Lookup(custom_terminals, NameB) = PyInt(1)
    /\ result = PyInt(1)

-----------------------------------------------------------------------------
(* Terminals of quoted texts: a word bare, in one or two layers of single  *)
(* or double quotes, or with a quote on one side only                      *)

Quotes == {"\"", "'"}

Quoted(q, w) == <<q>> \o w \o <<q>>

QuotedTexts ==
    LET W == {foo, <<"2">>}
    IN  W \cup {Quoted(q, w) : q \in Quotes, w \in W}
          \cup {Quoted(p, Quoted(q, w)) : p, q \in Quotes, w \in W}
          \cup {<<q>> \o w : q \in Quotes, w \in W}
          \cup {w \o <<q>> : q \in Quotes, w \in W}

InitQuotes ==
    /\ custom_terminals \in TerminalRegistries
    /\ reserved_terminals = <<>>
    /\ pc = "idle"
    /\ src \in QuotedTexts
    /\ expr = None
    /\ result = PyNone
    /\ conf = <<>>
    /\ outputs = <<>>
    /\ util_functions = <<>>
    /\ to_evaluate = <<>>
    /\ rounds = 0
    /\ round_bound = 0
    /\ log = <<>>
    /\ ncalls = 0

SpecQuotes == InitQuotes /\ [][NextTerminal]_vars

\* no earlier case of Terminal.evaluate takes the text s
IsStringCase(s, ct, dim) ==
    /\ ~HasName(ct, s)
    /\ lower(s) \notin {<<"t", "r", "u", "e">>, <<"f", "a", "l", "s", "e">>}
    /\ ~IsIntLiteral(s)
    /\ ~IsFloatLiteral(s)
    /\ ~(dim > 0 /\ s \in CoordinateNames(dim))

\* s without the pair of quotes around it, when there is one
WithoutOneLayer(s) ==
    IF Len(s) >= 2 /\ s[1] \in Quotes /\ s[Len(s)] = s[1]
    THEN SubSeq(s, 2, Len(s) - 1)
    ELSE s

\* C25: a text that is read as a string loses the one pair of quotes
\* around it and nothing else: a text without a pair of quotes around it is
\* returned as it is, and a text in two layers of quotes keeps the inner one
OneLayerOfQuotesRemoved ==
    (pc = "evaluated" /\ IsStringCase(strip(src), custom_terminals, log[1].dim)) =>
        result = PyStr(WithoutOneLayer(strip(src)))

-----------------------------------------------------------------------------
(* A final entry beside the interim scalars foo and bar: its key is test,  *)
(* foo or foo.a, and its value a literal or an expression in foo or bar    *)

FinalKeys == {test, foo, foo \o <<".", "a">>}

FinalTexts ==
    {<<"1">>, bar \o <<" ", "+", " ", "1">>, foo \o <<" ", "+", " ", "1">>}

ShadowSections ==
    {<< << <<"_">> \o foo, <<"2">> >>, << <<"_">> \o bar, <<"3">> >>, <<k, v>> >> :
        k \in FinalKeys, v \in FinalTexts}

\* process_args(conf), the entries of conf in any order
CallShadowed ==
    /\ pc = "idle"
    /\ \E section \in ShadowSections :
          \E p \in Orderings(Len(section)),
             order \in SetOrders(tmp_functions(section)) :
              /\ src' = [has_factory |-> FALSE, clean |-> TRUE]
              /\ Call(Permuted(section, p), FALSE, <<type_key>>, TRUE, order)

NextShadow == CallShadowed \/ ResolutionRound \/ Return

SpecShadow == Init /\ [][NextShadow]_vars

\* the value of a final text of the family, foo being 2 and bar 3
FinalValue(v) ==
    IF v = <<"1">> THEN PyInt(1)
    ELSE IF startswith(v, bar) THEN PyInt(4)
    ELSE PyInt(3)

\* C26: process_args returns, and in the dictionary it returns every final
\* entry holds, at its own path, the value of its text and no unevaluated
\* tree, also when the first key of the entry is the name of an interim
\* entry; the interim names keep the values of their own definitions
FinalEntriesEvaluated ==
    (Finished /\ conf # <<>>) =>
        /\ pc = "returned"
        /\ \A i \in 1..Len(conf) :
              ~IsInterim(i) =>
                  get_path(result, KeysOf(i)) = FinalValue(conf[i][2])
        /\ Lookup(custom_terminals, foo) = PyInt(2)
        /\ Lookup(custom_terminals, bar) = PyInt(3)

-----------------------------------------------------------------------------
(* Interim keys written with a capital: foo and bar are defined under the  *)
(* keys _foo or _Foo and _bar or _Bar, and used as they were written       *)

Capital(name) == <<CHOOSE c \in UpperCase : lower_char(c) = name[1]>> \o Tail(name)

Written2(name) == {name, Capital(name)}

CaseSection(f, b, doubled) ==
    << << <<"_">> \o f, <<"2">> >>,
       << <<"_">> \o b, IF doubled THEN f \o <<" ", "*", " ", "2">> ELSE <<"3">> >>,
       << test, f \o <<" ", "+", " ", "1">> >> >>

CaseSections ==
    {CaseSection(f, b, doubled) :
        f \in Written2(foo), b \in Written2(bar), doubled \in BOOLEAN}

\* process_args(conf), the entries of conf in any order
CallCased ==
    /\ pc = "idle"
    /\ \E section \in CaseSections :
          \E p \in Orderings(Len(section)),
             order \in SetOrders(tmp_functions(section)) :
              /\ src' = [has_factory |-> FALSE, clean |-> TRUE]
              /\ Call(Permuted(section, p), FALSE, <<type_key>>, TRUE, order)

NextCase == CallCased \/ ResolutionRound \/ Return

SpecCase == Init /\ [][NextCase]_vars

\* C27: every name that process_args is to publish was subscribed before,
\* whatever the case of the letters of its key, so that update_terminal
\* never raises for a name that is not subscribed
PublishedNamesSubscribed ==
    /\ pc = "loop" =>
          \A i \in 1..Len(util_functions) :
              HasName(custom_terminals, util_functions[i][1])
    /\ pc = "raised" => result.exc # "AttributeError"

-----------------------------------------------------------------------------
(* ready() in any state of the Registry                                    *)

\* C28: ready() of a parsed tree returns True or False in every state of
\* the Registry that subscribe_terminal, update_terminal and
\* clear_terminals lead to, also for a tree parsed before the Registry was
\* cleared: it never raises
ReadyNeverRaises == Last("ready") => result.t = "bool"

-----------------------------------------------------------------------------
(* An interim record with a sub-entry one to MaxDepth keys below the name: *)
(* _foo.a, _foo.a.b, _foo.a.b.c, its value a literal or an expression in   *)
(* the interim scalar bar, alone or beside the sub-entry _foo.b.x           *)

MaxDepth == 3

PathKeys == << <<"a">>, <<"b">>, <<"c">>, <<"d">>, <<"e">> >>

Paths == {SubSeq(PathKeys, 1, n) : n \in 1..MaxDepth}

\* the keys joined with dots
RECURSIVE Dotted(_)
Dotted(keys) ==
    IF Len(keys) = 1 THEN keys[1] ELSE keys[1] \o <<".">> \o Dotted(Tail(keys))

SiblingPath == << <<"b">>, <<"x">> >>

PathSection(path, v, sibling) ==
    << << <<"_">> \o Dotted(<<foo>> \o path), v >>,
       << <<"_">> \o bar, <<"3">> >>,
       << test, <<"1">> >> >>
    \o (IF sibling THEN << << <<"_">> \o Dotted(<<foo>> \o SiblingPath), <<"1">> >> >>
        ELSE <<>>)

PathSections ==
    {PathSection(path, v, sibling) :
        path \in Paths, v \in {<<"5">>, bar \o <<" ", "+", " ", "1">>},
        sibling \in BOOLEAN}

\* process_args(conf), the entries of conf in any order
CallNested ==
    /\ pc = "idle"
    /\ \E section \in PathSections :
          \E p \in Orderings(Len(section)),
             order \in SetOrders(tmp_functions(section)) :
              /\ src' = [has_factory |-> FALSE, clean |-> TRUE]
              /\ Call(Permuted(section, p), FALSE, <<type_key>>, TRUE, order)

NextPaths == CallNested \/ ResolutionRound \/ Return

SpecPaths == Init /\ [][NextPaths]_vars

\* the value of a sub-entry text of the family, bar being 3
SubValue(v) ==
    IF v = <<"5">> THEN PyInt(5) ELSE IF v = <<"1">> THEN PyInt(1) ELSE PyInt(4)

\* C29: process_args returns, and the record published for foo holds the
\* value of every sub-entry at the path of its key, whatever the depth of
\* the path and whether the sub-entry was ready when it was parsed or
\* became ready in the loop
StoredAtOwnPath ==
    (Finished /\ conf # <<>>) =>
        /\ pc = "returned"
        /\ \A i \in 1..Len(conf) :
              (IsInterim(i) /\ KeysOf(i)[1] = foo) =>
                  get_path(Lookup(custom_terminals, foo), Tail(KeysOf(i)))
                      = SubValue(conf[i][2])

-----------------------------------------------------------------------------
(* Strings with one to MaxMinus unary minuses in a row, at the start of    *)
(* the string or after a binary operator, before a number, a group in      *)
(* brackets or a function, and before a further binary operator            *)

MaxMinus == 2

MinusPrefixes ==
    {<<>>, <<"1", " ", "-", " ">>, <<"1", "-">>, <<"1", "+">>, <<"2", "*">>,
     <<"2", "^">>}

MinusOperands ==
    {<<"1">>, <<"2">>, <<"(", "2", ")">>, <<"a", "b", "s", "(", "2", ")">>}

MinusSuffixes ==
    {<<>>, <<"+", "1">>, <<" ", "+", " ", "1">>, <<"*", "3">>, <<"^", "2">>}

Minuses(n) == [i \in 1..n |-> "-"]

MinusTexts ==
    {pre \o Minuses(n) \o opd \o suf :
        pre \in MinusPrefixes, n \in 1..MaxMinus, opd \in MinusOperands,
        suf \in MinusSuffixes}

InitMinus ==
    /\ custom_terminals = <<>>
    /\ reserved_terminals = <<>>
    /\ pc = "idle"
    /\ src \in MinusTexts
    /\ expr = None
    /\ result = PyNone
    /\ conf = <<>>
    /\ outputs = <<>>
    /\ util_functions = <<>>
    /\ to_evaluate = <<>>
    /\ rounds = 0
    /\ round_bound = 0
    /\ log = <<>>
    /\ ncalls = 0

SpecMinus == InitMinus /\ [][NextText]_vars

\* C30: no parse of a string with unary minuses fails in the rotation of
\* set_right for want of a left child to detach: the node handed to a
\* rotation always has one, also when unary minuses follow one another
RotationHasLeftChild ==
    \A i \in 1..Len(log) :
        ~log[i].parsed => log[i].value.exc # "AttributeError"

====
